---- MODULE Spec2Model ----
(***************************************************************************)
(* A model of the halmoni music-theory core: the pitch and harmony value   *)
(* types, ChordProgression and its transforms, Scale.from_mode, the        *)
(* suggestion strategies, the suggestion engine and the reharmonization    *)
(* beam search.  Each area has its own specification over its own          *)
(* variables; the variables of the other areas stay at their idle values.  *)
(***************************************************************************)
EXTENDS Integers, Sequences, FiniteSets, TLC

VARIABLES
    \* ChordProgression objects and the list objects they hold
    heap, progs, progOp, progRaised,
    \* the Note most recently obtained
    note, noteOp, noteRaised,
    \* a chord, its symbol and the chord parsed back from the symbol
    rtChord, rtSymbol, rtParsed, rtPc,
    \* the dict objects, the dict Scale.SCALE_PATTERNS refers to, and the
    \* threads calling Scale.from_mode
    dicts, catalog, modeThreads,
    \* one call of ChordSuggestionEngine.get_suggestions: its arguments, the
    \* strategies still to run, what each strategy that ran did, the
    \* suggestions collected, and what the caller gets
    engPc, engFilter, engMax, engTodo, engRan, engAll, engResult,
    \* one call of a strategy's suggest: the progression and the key it is
    \* given, the strategy called, and what the call did
    stProg, stKey, stName, stOut,
    \* one call of find_best_progression_sequence: its arguments, the number
    \* of positions done, the beam, and what the caller gets
    bmPc, bmProg, bmKey, bmMelody, bmFilter, bmWidth, bmI, bmBeam, bmResult,
    \* one call of a function of the analysis or core modules that touches no
    \* shared state: the function called, its arguments, and what the caller
    \* gets
    callOp, callArgs, callOut

progVars == <<heap, progs, progOp, progRaised>>
noteVars == <<note, noteOp, noteRaised>>
rtVars == <<rtChord, rtSymbol, rtParsed, rtPc>>
modeVars == <<dicts, catalog, modeThreads>>
engVars == <<engPc, engFilter, engMax, engTodo, engRan, engAll, engResult>>
stratVars == <<stProg, stKey, stName, stOut>>
beamVars == <<bmPc, bmProg, bmKey, bmMelody, bmFilter, bmWidth, bmI, bmBeam, bmResult>>
callVars == <<callOp, callArgs, callOut>>
vars == <<progVars, noteVars, rtVars, modeVars, engVars, stratVars, beamVars, callVars>>

\* what the actions of one area leave unchanged
notProg == <<noteVars, rtVars, modeVars, engVars, stratVars, beamVars, callVars>>
notNote == <<progVars, rtVars, modeVars, engVars, stratVars, beamVars, callVars>>
notRt == <<progVars, noteVars, modeVars, engVars, stratVars, beamVars, callVars>>
notMode == <<progVars, noteVars, rtVars, engVars, stratVars, beamVars, callVars>>
notEng == <<progVars, noteVars, rtVars, modeVars, stratVars, beamVars, callVars>>
notStrat == <<progVars, noteVars, rtVars, modeVars, engVars, beamVars, callVars>>
notBeam == <<progVars, noteVars, rtVars, modeVars, engVars, stratVars, callVars>>
notCall == <<progVars, noteVars, rtVars, modeVars, engVars, stratVars, beamVars>>
notModeCall == <<progVars, noteVars, rtVars, engVars, stratVars, beamVars>>

(***************************************************************************)
(* Generic helpers                                                         *)
(***************************************************************************)
None == [none |-> TRUE]
ValueError == [error |-> "ValueError"]
IndexError == [error |-> "IndexError"]
IsErr(x) == "error" \in DOMAIN x
IsNone(x) == "none" \in DOMAIN x

Min(a, b) == IF a < b THEN a ELSE b
Max(a, b) == IF a > b THEN a ELSE b
Abs(a) == IF a < 0 THEN -a ELSE a

\* list.index(x): the first position (1-based here) holding x, 0 when absent
IndexOf(seq, x) ==
    IF \E i \in 1..Len(seq) : seq[i] = x
    THEN CHOOSE i \in 1..Len(seq) : seq[i] = x /\ \A j \in 1..(i-1) : seq[j] # x
    ELSE 0

SeqToSet(seq) == {seq[i] : i \in 1..Len(seq)}

(***************************************************************************)
(* Note (core/note.py)                                                     *)
(***************************************************************************)
MidiMax == 127
OctaveMax == 10

CHROMATIC_SCALE == <<"C", "C#", "D", "D#", "E", "F", "F#", "G", "G#", "A", "A#", "B">>
FLAT_SCALE == <<"C", "Db", "D", "Eb", "E", "F", "Gb", "G", "Ab", "A", "Bb", "B">>

\* ENHARMONIC_MAP as a set of pairs
ENHARMONIC_MAP ==
    [p \in {"C#", "Db", "D#", "Eb", "F#", "Gb", "G#", "Ab", "A#", "Bb"} |->
        CASE p = "C#" -> "Db" [] p = "Db" -> "C#"
          [] p = "D#" -> "Eb" [] p = "Eb" -> "D#"
          [] p = "F#" -> "Gb" [] p = "Gb" -> "F#"
          [] p = "G#" -> "Ab" [] p = "Ab" -> "G#"
          [] p = "A#" -> "Bb" [] p = "Bb" -> "A#"]

\* the strings _normalize_pitch_class accepts: ^[A-G][#b]?$
Letters == {"A", "B", "C", "D", "E", "F", "G"}
RegexPitchNames ==
    Letters \cup {l \o "#" : l \in Letters} \cup {l \o "b" : l \in Letters}

\* _calculate_midi_number: CHROMATIC_SCALE.index, falling back to FLAT_SCALE.index
\* (whose ValueError propagates)
CalculateMidiNumber(pc, octave) ==
    IF IndexOf(CHROMATIC_SCALE, pc) # 0
    THEN (octave + 1) * 12 + (IndexOf(CHROMATIC_SCALE, pc) - 1)
    ELSE IF IndexOf(FLAT_SCALE, pc) # 0
    THEN (octave + 1) * 12 + (IndexOf(FLAT_SCALE, pc) - 1)
    ELSE -1

\* Note(pitch: int)
NoteFromMidi(pitch) ==
    IF ~(0 <= pitch /\ pitch <= MidiMax) THEN ValueError
    ELSE [pc |-> CHROMATIC_SCALE[(pitch % 12) + 1],
          octave |-> (pitch \div 12) - 1,
          midi |-> pitch]

\* Note(pitch: str, octave), called with an octave
NoteFromName(pitch, octave) ==
    IF pitch \notin RegexPitchNames THEN ValueError
    ELSE IF ~(0 <= octave /\ octave <= OctaveMax) THEN ValueError
    ELSE IF IndexOf(CHROMATIC_SCALE, pitch) = 0 /\ IndexOf(FLAT_SCALE, pitch) = 0
    THEN ValueError
    ELSE [pc |-> pitch, octave |-> octave, midi |-> CalculateMidiNumber(pitch, octave)]

\* Note.enharmonic_equivalent: None for a natural note
EnharmonicEquivalent(n) ==
    IF n.pc \in DOMAIN ENHARMONIC_MAP
    THEN NoteFromName(ENHARMONIC_MAP[n.pc], n.octave)
    ELSE None

\* Note.transpose
NoteTranspose(n, semitones) ==
    IF ~(0 <= n.midi + semitones /\ n.midi + semitones <= MidiMax) THEN ValueError
    ELSE NoteFromMidi(n.midi + semitones)

\* Note.__eq__: by MIDI number
NoteEq(a, b) == a.midi = b.midi

(***************************************************************************)
(* Interval (core/interval.py)                                             *)
(***************************************************************************)
\* Interval(semitones): (_semitones, _octaves)
Interval(semitones) == [simple |-> semitones % 12, octaves |-> semitones \div 12]
IntervalFromNotes(n1, n2) == Interval(n2.midi - n1.midi)
IntervalSemitones(iv) == iv.simple + iv.octaves * 12

(***************************************************************************)
(* Chord (core/chord.py)                                                   *)
(***************************************************************************)
Qualities ==
    <<"major", "minor", "diminished", "augmented", "major7", "minor7",
      "dominant7", "diminished7", "half_diminished7", "major9", "minor9",
      "dominant9", "major11", "minor11", "dominant11", "major13", "minor13",
      "dominant13", "sus2", "sus4">>

CHORD_TONES ==
    [q \in SeqToSet(Qualities) |->
        CASE q = "major" -> <<0, 4, 7>>
          [] q = "minor" -> <<0, 3, 7>>
          [] q = "diminished" -> <<0, 3, 6>>
          [] q = "augmented" -> <<0, 4, 8>>
          [] q = "major7" -> <<0, 4, 7, 11>>
          [] q = "minor7" -> <<0, 3, 7, 10>>
          [] q = "dominant7" -> <<0, 4, 7, 10>>
          [] q = "diminished7" -> <<0, 3, 6, 9>>
          [] q = "half_diminished7" -> <<0, 3, 6, 10>>
          [] q = "major9" -> <<0, 4, 7, 11, 2>>
          [] q = "minor9" -> <<0, 3, 7, 10, 2>>
          [] q = "dominant9" -> <<0, 4, 7, 10, 2>>
          [] q = "major11" -> <<0, 4, 7, 11, 2, 5>>
          [] q = "minor11" -> <<0, 3, 7, 10, 2, 5>>
          [] q = "dominant11" -> <<0, 4, 7, 10, 2, 5>>
          [] q = "major13" -> <<0, 4, 7, 11, 2, 5, 9>>
          [] q = "minor13" -> <<0, 3, 7, 10, 2, 5, 9>>
          [] q = "dominant13" -> <<0, 4, 7, 10, 2, 5, 9>>
          [] q = "sus2" -> <<0, 2, 7>>
          [] q = "sus4" -> <<0, 5, 7>>]

\* Chord(root, quality, bass): bass defaults to the root
Chord(root, quality, bass) ==
    IF quality \notin SeqToSet(Qualities) THEN ValueError    \* the keys of CHORD_TONES
    ELSE [root |-> root, quality |-> quality,
          bass |-> IF IsNone(bass) THEN root ELSE bass]

\* Chord.__eq__
ChordEq(a, b) ==
    /\ NoteEq(a.root, b.root)
    /\ a.quality = b.quality
    /\ NoteEq(a.bass, b.bass)

\* [root.transpose(interval) for interval in intervals]; a transposition
\* that leaves the MIDI range gives its error in place of the note
TransposeAll(root, intervals) ==
    [i \in 1..Len(intervals) |-> NoteTranspose(root, intervals[i])]

\* one of the transpositions raised
HasErr(notes) == \E i \in 1..Len(notes) : IsErr(notes[i])

\* [note.pitch_class for note in notes], as a set
PitchClassSet(notes) == {notes[i].pc : i \in 1..Len(notes)}

\* Chord.notes
ChordNotes(ch) == TransposeAll(ch.root, CHORD_TONES[ch.quality])

\* Chord.notes raises when a chord tone leaves the MIDI range
ChordNotesRaise(ch) == HasErr(ChordNotes(ch))

\* Chord.pitch_classes
PitchClasses(ch) == PitchClassSet(ChordNotes(ch))

(***************************************************************************)
(* Scale (core/scale.py), outside from_mode: the catalog is the one of the *)
(* class body.                                                             *)
(***************************************************************************)
\* Scale.SCALE_PATTERNS as the class body leaves it
SCALE_PATTERNS ==
    [n \in {"major", "natural_minor", "harmonic_minor", "melodic_minor",
            "dorian", "phrygian", "lydian", "mixolydian", "locrian",
            "chromatic", "pentatonic_major", "pentatonic_minor", "blues",
            "whole_tone", "diminished_hw", "diminished_wh"} |->
        CASE n = "major" -> <<0, 2, 4, 5, 7, 9, 11>>
          [] n = "natural_minor" -> <<0, 2, 3, 5, 7, 8, 10>>
          [] n = "harmonic_minor" -> <<0, 2, 3, 5, 7, 8, 11>>
          [] n = "melodic_minor" -> <<0, 2, 3, 5, 7, 9, 11>>
          [] n = "dorian" -> <<0, 2, 3, 5, 7, 9, 10>>
          [] n = "phrygian" -> <<0, 1, 3, 5, 7, 8, 10>>
          [] n = "lydian" -> <<0, 2, 4, 6, 7, 9, 11>>
          [] n = "mixolydian" -> <<0, 2, 4, 5, 7, 9, 10>>
          [] n = "locrian" -> <<0, 1, 3, 5, 6, 8, 10>>
          [] n = "chromatic" -> <<0, 1, 2, 3, 4, 5, 6, 7, 8, 9, 10, 11>>
          [] n = "pentatonic_major" -> <<0, 2, 4, 7, 9>>
          [] n = "pentatonic_minor" -> <<0, 3, 5, 7, 10>>
          [] n = "blues" -> <<0, 3, 5, 6, 7, 10>>
          [] n = "whole_tone" -> <<0, 2, 4, 6, 8, 10>>
          [] n = "diminished_hw" -> <<0, 1, 3, 4, 6, 7, 9, 10>>
          [] n = "diminished_wh" -> <<0, 2, 3, 5, 6, 8, 9, 11>>]

\* Scale(tonic, scale_type)
Scale(tonic, scaleType) ==
    IF scaleType \notin DOMAIN SCALE_PATTERNS THEN ValueError
    ELSE [tonic |-> tonic, scale_type |-> scaleType]

ScalePattern(sc) == SCALE_PATTERNS[sc.scale_type]

\* Scale.notes
ScaleNotes(sc) == TransposeAll(sc.tonic, ScalePattern(sc))

\* Scale.notes raises when a scale note leaves the MIDI range
ScaleNotesRaise(sc) == HasErr(ScaleNotes(sc))

\* the loop of get_note_degree over the scale's notes: the first 1-based
\* index with the pitch class, 0 for Python's None
FirstWithPitchClass(notes, pc) ==
    IF \A i \in 1..Len(notes) : notes[i].pc # pc THEN 0
    ELSE CHOOSE i \in 1..Len(notes) :
            notes[i].pc = pc /\ \A j \in 1..(i - 1) : notes[j].pc # pc

\* Scale.get_note_degree
ScaleGetNoteDegree(sc, n) == FirstWithPitchClass(ScaleNotes(sc), n.pc)

\* Scale.contains_note
ScaleContainsNote(sc, n) == n.pc \in PitchClassSet(ScaleNotes(sc))

\* the quality Scale.get_chord_for_degree finds for a triad
TriadQuality(intervals) ==
    CASE intervals = <<4, 7>> -> "major"
      [] intervals = <<3, 7>> -> "minor"
      [] intervals = <<3, 6>> -> "diminished"
      [] intervals = <<4, 8>> -> "augmented"
      [] OTHER -> "major"

\* the triad get_chord_for_degree builds on a degree of the scale's notes
TriadOnDegree(notes, degree) ==
    Chord(notes[degree],
          TriadQuality([k \in 1..2 |->
              IntervalFromNotes(notes[degree],
                                notes[(((degree - 1) + 2 * k) % Len(notes)) + 1]).simple]),
          None)

\* Scale.get_chord_for_degree(degree, 'triad'), for 1 <= degree <= len(pattern)
ScaleGetChordForDegree(sc, degree) == TriadOnDegree(ScaleNotes(sc), degree)

(***************************************************************************)
(* Key (core/key.py)                                                       *)
(***************************************************************************)
\* str.lower() on the mode strings the model passes
Lower(mode) ==
    CASE mode = "Major" -> "major" [] mode = "MAJOR" -> "major"
      [] mode = "Minor" -> "minor" [] mode = "MINOR" -> "minor"
      [] OTHER -> mode

\* Key(tonic, mode): the scale is chosen by the mode string as passed
Key(tonic, mode) ==
    IF Lower(mode) \notin {"major", "minor"} THEN ValueError
    ELSE [tonic |-> tonic, mode |-> Lower(mode),
          scale |-> Scale(tonic, IF mode = "major" THEN "major" ELSE "natural_minor")]

\* Key.parallel_key
ParallelKey(key) == Key(key.tonic, IF key.mode = "major" THEN "minor" ELSE "major")

\* Key.get_chord_for_degree
KeyGetChordForDegree(key, degree) == ScaleGetChordForDegree(key.scale, degree)

\* Python's None as the value of analysis['function']
NoFunction == "None"

\* the harmonic function analyze_chord gives a root degree (the same table
\* for both modes)
DegreeFunction(degree) ==
    CASE degree \in {1, 3, 6} -> "tonic"
      [] degree \in {2, 4} -> "subdominant"
      [] degree \in {5, 7} -> "dominant"
      [] OTHER -> NoFunction

\* analyze_chord once the degree of the chord's root is known (0 for None):
\* is_diatonic, degree and function, or the error of a note out of range
AnalysisAtDegree(notes, ch, degree) ==
    IF degree = 0
    THEN [is_diatonic |-> FALSE, degree |-> 0, function |-> NoFunction]
    ELSE IF HasErr(ChordNotes(ch)) \/ HasErr(ChordNotes(TriadOnDegree(notes, degree)))
    THEN ValueError
    ELSE [is_diatonic |-> PitchClasses(ch) = PitchClasses(TriadOnDegree(notes, degree)),
          degree |-> degree,
          function |-> DegreeFunction(degree)]

\* analyze_chord over the notes of the key's scale
AnalysisInScale(notes, ch) ==
    IF HasErr(notes) THEN ValueError
    ELSE AnalysisAtDegree(notes, ch, FirstWithPitchClass(notes, ch.root.pc))

\* Key.analyze_chord
AnalyzeChord(key, ch) == AnalysisInScale(ScaleNotes(key.scale), ch)

\* Key.analyze_chord raises when the scale's notes or, for a root in the
\* scale, the notes of the chord or of the expected chord leave the MIDI range
AnalyzeChordRaise(key, ch) == IsErr(AnalyzeChord(key, ch))


(***************************************************************************)
(* ChordProgression (core/progression.py)                                  *)
(*                                                                         *)
(* heap[id] is a Python list object; a progression holds the ids of its    *)
(* chords list and its durations list.  An argument of the constructor is  *)
(* either an existing list object (Ref) or a list the caller has just      *)
(* built and holds no other reference to (Tmp).                            *)
(***************************************************************************)
MaxProgs == 2
MaxLen == 2

Ref(id) == [ref |-> id]
Tmp(seq) == [tmp |-> seq]
IsRef(a) == "ref" \in DOMAIN a
ArgValue(h, a) == IF IsRef(a) THEN h[a.ref] ELSE a.tmp

\* list.copy(): always a new list object
ListCopy(h, a) == [heap |-> Append(h, ArgValue(h, a)), id |-> Len(h) + 1]

CtorCopyChords(h, a) == ListCopy(h, a)
CtorCopyDurations(h, a) == ListCopy(h, a)

\* ChordProgression.__init__: the new heap and progression table, or the error
ProgressionInitMutNoCheck(h, ps, chords, key, durations) ==
    LET c == CtorCopyChords(h, chords)
        n == Len(ArgValue(h, chords))
        d == IF IsNone(durations)
             THEN [heap |-> Append(c.heap, [i \in 1..n |-> 1]), id |-> Len(c.heap) + 1]
             ELSE CtorCopyDurations(c.heap, durations)
    IN  [heap |-> d.heap,
         progs |-> Append(ps, [chords |-> c.id, durations |-> d.id, key |-> key])]

ProgressionInit(h, ps, chords, key, durations) ==
    IF ArgValue(h, chords) = <<>> THEN ValueError
    ELSE LET c == CtorCopyChords(h, chords)
             n == Len(ArgValue(h, chords))
         IN  IF IsNone(durations)
             THEN [heap |-> Append(c.heap, [i \in 1..n |-> 1]),
                   progs |-> Append(ps, [chords |-> c.id,
                                          durations |-> Len(c.heap) + 1,
                                          key |-> key])]
             ELSE IF Len(ArgValue(h, durations)) # n THEN ValueError
             ELSE LET d == CtorCopyDurations(c.heap, durations)
                  IN  [heap |-> d.heap,
                       progs |-> Append(ps, [chords |-> c.id, durations |-> d.id,
                                              key |-> key])]

\* Python list indexing: -n..n-1 are valid, the 1-based position
ValidIndex(n, i) == -n <= i /\ i < n
Pos(n, i) == IF i < 0 THEN n + i + 1 ELSE i + 1
\* list.insert(i, x) clamps the index
ListInsert(seq, i, x) ==
    LET n == Len(seq)
        k == IF i < 0 THEN Max(0, n + i) ELSE Min(i, n)
    IN  SubSeq(seq, 1, k) \o <<x>> \o SubSeq(seq, k + 1, n)

RECURSIVE ListRepeat(_, _)
ListRepeat(seq, times) == IF times <= 0 THEN <<>> ELSE seq \o ListRepeat(seq, times - 1)

\* the chord of ChordProgression.transpose for one chord, or the error
TransposeChord(ch, semitones) ==
    LET newRoot == NoteTranspose(ch.root, semitones)
        newBass == IF ~NoteEq(ch.bass, ch.root)
                   THEN NoteTranspose(ch.bass, semitones) ELSE None
    IN  IF IsErr(newRoot) \/ IsErr(newBass) THEN ValueError
        ELSE Chord(newRoot, ch.quality, newBass)

\* the inputs of the progression model: two chords at the top of the MIDI
\* range, so that transposing upward raises
ProgNotes == {NoteFromMidi(MidiMax - 1), NoteFromMidi(MidiMax)}
ProgChords == {Chord(n, "major", None) : n \in ProgNotes}
ProgKeys == {None, Key(NoteFromMidi(MidiMax), "major")}
ProgDurations == {1}
ProgSemitones == {-1, 1}
ProgIndexes == (-(MaxLen + 1))..MaxLen
ProgTimes == 0..2
ListsOver(S) == UNION {[1..n -> S] : n \in 0..MaxLen}

ProgChordsOf(p) == heap[progs[p].chords]
ProgDurationsOf(p) == heap[progs[p].durations]
ProgIds == 1..Len(progs)

ProgRaise(op) ==
    /\ progOp' = op
    /\ progRaised' = TRUE
    /\ UNCHANGED <<heap, progs>>

ProgReturn(op, r) ==
    IF IsErr(r) THEN ProgRaise(op)
    ELSE /\ heap' = r.heap
         /\ progs' = r.progs
         /\ progOp' = op
         /\ progRaised' = FALSE

\* ChordProgression(chords, key, durations) called with the caller's own lists
Construct ==
    /\ Len(progs) < MaxProgs
    /\ \E chords \in ListsOver(ProgChords), key \in ProgKeys,
          durations \in {None} \cup {Tmp(d) : d \in ListsOver(ProgDurations)} :
          ProgReturn("construct", ProgressionInit(heap, progs, Tmp(chords), key, durations))
    /\ UNCHANGED notProg

\* p.transpose(interval)
Transpose ==
    /\ Len(progs) < MaxProgs
    /\ \E p \in ProgIds, s \in ProgSemitones :
          LET semitones == IntervalSemitones(Interval(s))
              old == ProgChordsOf(p)
              transposed == [i \in 1..Len(old) |-> TransposeChord(old[i], semitones)]
              newTonic == IF IsNone(progs[p].key) THEN None
                          ELSE NoteTranspose(progs[p].key.tonic, semitones)
              newKey == IF IsNone(progs[p].key) THEN None
                        ELSE Key(newTonic, progs[p].key.mode)
          IN  \* the model keeps to results inside ProgChords and ProgKeys (or an error)
              /\ \A i \in 1..Len(old) :
                    IsErr(transposed[i]) \/ transposed[i] \in ProgChords
              /\ IsErr(newTonic) \/ newKey \in ProgKeys
              /\ IF (\E i \in 1..Len(old) : IsErr(transposed[i])) \/ IsErr(newTonic)
                 THEN ProgRaise("transpose")
                 ELSE ProgReturn("transpose",
                        ProgressionInit(heap, progs, Tmp(transposed), newKey,
                                        Ref(progs[p].durations)))
    /\ UNCHANGED notProg

\* new_chords = self.chords.copy(); new_chords[index] = new_chord
SubstituteWorkListMutNoCopy(h, p, index, newChord) ==
    LET id == progs[p].chords
    IN  [heap |-> [h EXCEPT ![id][Pos(Len(h[id]), index)] = newChord],
         arg |-> Ref(id)]

SubstituteWorkList(h, p, index, newChord) ==
    LET id == progs[p].chords
    IN  [heap |-> h,
         arg |-> Tmp([h[id] EXCEPT ![Pos(Len(h[id]), index)] = newChord])]

\* p.substitute_chord(index, new_chord)
SubstituteChord ==
    /\ Len(progs) < MaxProgs
    /\ \E p \in ProgIds, index \in ProgIndexes, newChord \in ProgChords :
          IF ~ValidIndex(Len(ProgChordsOf(p)), index)
          THEN ProgRaise("substitute_chord")
          ELSE LET w == SubstituteWorkList(heap, p, index, newChord)
               IN  ProgReturn("substitute_chord",
                      ProgressionInit(w.heap, progs, w.arg, progs[p].key,
                                      Ref(progs[p].durations)))
    /\ UNCHANGED notProg

\* p.insert_chord(index, chord, duration)
InsertChord ==
    /\ Len(progs) < MaxProgs
    /\ \E p \in ProgIds, index \in ProgIndexes, chord \in ProgChords,
          duration \in ProgDurations :
          /\ Len(ProgChordsOf(p)) < MaxLen
          /\ ProgReturn("insert_chord",
                ProgressionInit(heap, progs,
                    Tmp(ListInsert(ProgChordsOf(p), index, chord)), progs[p].key,
                    Tmp(ListInsert(ProgDurationsOf(p), index, duration))))
    /\ UNCHANGED notProg

\* p.extend(other)
Extend ==
    /\ Len(progs) < MaxProgs
    /\ \E p \in ProgIds, other \in ProgIds :
          /\ Len(ProgChordsOf(p)) + Len(ProgChordsOf(other)) <= MaxLen
          /\ ProgReturn("extend",
                ProgressionInit(heap, progs,
                    Tmp(ProgChordsOf(p) \o ProgChordsOf(other)), progs[p].key,
                    Tmp(ProgDurationsOf(p) \o ProgDurationsOf(other))))
    /\ UNCHANGED notProg

\* p.repeat(times)
Repeat ==
    /\ Len(progs) < MaxProgs
    /\ \E p \in ProgIds, times \in ProgTimes :
          /\ Len(ProgChordsOf(p)) * times <= MaxLen
          /\ IF times < 1 THEN ProgRaise("repeat")
             ELSE ProgReturn("repeat",
                    ProgressionInit(heap, progs,
                        Tmp(ListRepeat(ProgChordsOf(p), times)), progs[p].key,
                        Tmp(ListRepeat(ProgDurationsOf(p), times))))
    /\ UNCHANGED notProg

\* p[index] = chord
SetItem ==
    \E p \in ProgIds, index \in ProgIndexes, chord \in ProgChords :
        /\ IF ~ValidIndex(Len(ProgChordsOf(p)), index)
           THEN ProgRaise("setitem")
           ELSE /\ heap' = [heap EXCEPT ![progs[p].chords]
                                           [Pos(Len(ProgChordsOf(p)), index)] = chord]
                /\ progOp' = "setitem"
                /\ progRaised' = FALSE
                /\ UNCHANGED progs
        /\ UNCHANGED notProg

ProgIdle ==
    /\ heap = <<>>
    /\ progs = <<>>
    /\ progOp = "none"
    /\ progRaised = FALSE

NoteIdle ==
    /\ note = None
    /\ noteOp = "none"
    /\ noteRaised = FALSE

RtIdle ==
    /\ rtChord = None
    /\ rtSymbol = <<>>
    /\ rtParsed = None
    /\ rtPc = "idle"

ModeIdle ==
    /\ dicts = <<SCALE_PATTERNS>>
    /\ catalog = 1
    /\ modeThreads = <<>>

EngIdle ==
    /\ engPc = "idle"
    /\ engFilter = None
    /\ engMax = 0
    /\ engTodo = <<>>
    /\ engRan = <<>>
    /\ engAll = <<>>
    /\ engResult = None

StratIdle ==
    /\ stProg = None
    /\ stKey = None
    /\ stName = "none"
    /\ stOut = None

BeamIdle ==
    /\ bmPc = "idle"
    /\ bmProg = None
    /\ bmKey = None
    /\ bmMelody = <<>>
    /\ bmFilter = None
    /\ bmWidth = 0
    /\ bmI = 0
    /\ bmBeam = <<>>
    /\ bmResult = None

CallIdle == callOp = "none" /\ callArgs = None /\ callOut = None

InitProg == ProgIdle /\ NoteIdle /\ RtIdle /\ ModeIdle /\ EngIdle /\ StratIdle /\ BeamIdle /\ CallIdle
NextProg ==
    \/ Construct
    \/ Transpose
    \/ SubstituteChord
    \/ InsertChord
    \/ Extend
    \/ Repeat
    \/ SetItem
SpecProg == InitProg /\ [][NextProg]_vars


\* C1: every progression that exists has as many durations as chords and at
\* least one chord, whatever sequence of constructions, transforms and
\* index-sets produced it (a construction that would break this raises and
\* adds no object)
C1_LengthsMatchNonEmpty ==
    \A p \in ProgIds :
        /\ Len(ProgChordsOf(p)) = Len(ProgDurationsOf(p))
        /\ Len(ProgChordsOf(p)) >= 1

\* a transform has returned a second progression, longer than the first
C1_Witness ==
    /\ progOp = "insert_chord"
    /\ ~progRaised
    /\ Len(progs) = 2
    /\ Len(ProgChordsOf(2)) = 2
    /\ Len(ProgDurationsOf(2)) = 2

\* the list objects of all progressions are pairwise distinct
NoSharedLists ==
    /\ \A p \in ProgIds : progs[p].chords # progs[p].durations
    /\ \A p, q \in ProgIds :
          p # q => {progs[p].chords, progs[p].durations}
                   \cap {progs[q].chords, progs[q].durations} = {}

ProgChanged(p) ==
    \/ progs'[p] # progs[p]
    \/ heap'[progs[p].chords] # heap[progs[p].chords]
    \/ heap'[progs[p].durations] # heap[progs[p].durations]

\* C2: a step changes the chords, durations or key of an existing progression
\* only when it is an index-set, which changes the chords of one progression
\* alone and no durations; no two progressions ever share a list object
C2_TransformsCopy ==
    [][/\ \A p \in ProgIds :
             ProgChanged(p) =>
                /\ progOp' = "setitem"
                /\ ~progRaised'
                /\ progs'[p] = progs[p]
                /\ heap'[progs[p].durations] = heap[progs[p].durations]
                /\ \A q \in ProgIds : q # p => ~ProgChanged(q)
       /\ NoSharedLists']_vars

\* substitute_chord has returned a progression that differs from its receiver
C2_Witness ==
    /\ progOp = "substitute_chord"
    /\ ~progRaised
    /\ Len(progs) = 2
    /\ ProgChordsOf(1) # ProgChordsOf(2)
    /\ ProgDurationsOf(1) = ProgDurationsOf(2)

(***************************************************************************)
(* Obtaining Notes (core/note.py)                                          *)
(***************************************************************************)
MaxSemis == 12
NoteMidiInputs == (-1)..(MidiMax + 1)
NoteNameInputs == RegexPitchNames \cup {"H", "C##"}
NoteOctaveInputs == (-1)..(OctaveMax + 1)

NoteResult(op, r) ==
    /\ noteOp' = op
    /\ IF IsErr(r) THEN noteRaised' = TRUE /\ UNCHANGED note
       ELSE noteRaised' = FALSE /\ note' = r

\* Note(midi)
NewNoteFromMidi ==
    /\ \E pitch \in NoteMidiInputs : NoteResult("from_midi", NoteFromMidi(pitch))
    /\ UNCHANGED notNote

\* Note(name, octave)
NewNoteFromName ==
    /\ \E pitch \in NoteNameInputs, octave \in NoteOctaveInputs :
          NoteResult("from_name", NoteFromName(pitch, octave))
    /\ UNCHANGED notNote

\* note.transpose(semitones)
DoNoteTranspose ==
    /\ ~IsNone(note)
    /\ \E s \in (-MaxSemis)..MaxSemis : NoteResult("transpose", NoteTranspose(note, s))
    /\ UNCHANGED notNote

\* note.enharmonic_equivalent(): a natural note returns None and no Note
DoEnharmonicEquivalent ==
    /\ ~IsNone(note)
    /\ LET r == EnharmonicEquivalent(note)
       IN  IF IsNone(r)
           THEN noteOp' = "enharmonic" /\ noteRaised' = FALSE /\ UNCHANGED note
           ELSE NoteResult("enharmonic", r)
    /\ UNCHANGED notNote

InitNote == ProgIdle /\ NoteIdle /\ RtIdle /\ ModeIdle /\ EngIdle /\ StratIdle /\ BeamIdle /\ CallIdle
NextNote ==
    \/ NewNoteFromMidi
    \/ NewNoteFromName
    \/ DoNoteTranspose
    \/ DoEnharmonicEquivalent
SpecNote == InitNote /\ [][NextNote]_vars

\* C3: every Note obtained has its MIDI number in [0,127] and its octave in
\* [0,10]
C3_NoteInRange ==
    ~IsNone(note) =>
        /\ 0 <= note.midi /\ note.midi <= MidiMax
        /\ 0 <= note.octave /\ note.octave <= OctaveMax

(***************************************************************************)
(* Chord symbols (core/chord.py).  A symbol is a sequence of characters.   *)
(***************************************************************************)
RECURSIVE StrOf(_)
StrOf(chars) == IF chars = <<>> THEN "" ELSE Head(chars) \o StrOf(Tail(chars))

PitchCharSeqs ==
    {<<l>> : l \in Letters} \cup {<<l, a>> : l \in Letters, a \in {"#", "b"}}
\* the characters of a pitch-class string
PcChars(pc) == CHOOSE cs \in PitchCharSeqs : StrOf(cs) = pc

\* CHORD_SYMBOLS, each symbol as its characters
CHORD_SYMBOLS ==
    [q \in SeqToSet(Qualities) |->
        CASE q = "major" -> <<>>
          [] q = "minor" -> <<"m">>
          [] q = "diminished" -> <<"d", "i", "m">>
          [] q = "augmented" -> <<"a", "u", "g">>
          [] q = "major7" -> <<"m", "a", "j", "7">>
          [] q = "minor7" -> <<"m", "7">>
          [] q = "dominant7" -> <<"7">>
          [] q = "diminished7" -> <<"d", "i", "m", "7">>
          [] q = "half_diminished7" -> <<"m", "7", "b", "5">>
          [] q = "major9" -> <<"m", "a", "j", "9">>
          [] q = "minor9" -> <<"m", "9">>
          [] q = "dominant9" -> <<"9">>
          [] q = "major11" -> <<"m", "a", "j", "1", "1">>
          [] q = "minor11" -> <<"m", "1", "1">>
          [] q = "dominant11" -> <<"1", "1">>
          [] q = "major13" -> <<"m", "a", "j", "1", "3">>
          [] q = "minor13" -> <<"m", "1", "3">>
          [] q = "dominant13" -> <<"1", "3">>
          [] q = "sus2" -> <<"s", "u", "s", "2">>
          [] q = "sus4" -> <<"s", "u", "s", "4">>]

\* quality_map of _parse_quality, as (characters, quality) pairs; "deg" and
\* "hdim" stand for the degree sign and the slashed o
QUALITY_MAP ==
    { <<<<>>, "major">>, <<<<"M">>, "major">>, <<<<"m", "a", "j">>, "major">>,
      <<<<"m">>, "minor">>, <<<<"m", "i", "n">>, "minor">>,
      <<<<"d", "i", "m">>, "diminished">>, <<<<"deg">>, "diminished">>,
      <<<<"a", "u", "g">>, "augmented">>, <<<<"+">>, "augmented">>,
      <<<<"7">>, "dominant7">>,
      <<<<"m", "a", "j", "7">>, "major7">>, <<<<"M", "7">>, "major7">>,
      <<<<"m", "7">>, "minor7">>, <<<<"m", "i", "n", "7">>, "minor7">>,
      <<<<"d", "i", "m", "7">>, "diminished7">>, <<<<"deg", "7">>, "diminished7">>,
      <<<<"m", "7", "b", "5">>, "half_diminished7">>,
      <<<<"hdim", "7">>, "half_diminished7">>,
      <<<<"9">>, "dominant9">>,
      <<<<"m", "a", "j", "9">>, "major9">>, <<<<"M", "9">>, "major9">>,
      <<<<"m", "9">>, "minor9">>,
      <<<<"1", "1">>, "dominant11">>,
      <<<<"m", "a", "j", "1", "1">>, "major11">>,
      <<<<"m", "1", "1">>, "minor11">>,
      <<<<"1", "3">>, "dominant13">>,
      <<<<"m", "a", "j", "1", "3">>, "major13">>,
      <<<<"m", "1", "3">>, "minor13">>,
      <<<<"s", "u", "s", "2">>, "sus2">>,
      <<<<"s", "u", "s", "4">>, "sus4">> }

\* Chord._parse_quality
ParseQuality(chars) ==
    IF \E e \in QUALITY_MAP : e[1] = chars
    THEN (CHOOSE e \in QUALITY_MAP : e[1] = chars)[2]
    ELSE "ValueError"

\* Chord.symbol
ChordSymbolMutNoBass(ch) == PcChars(ch.root.pc) \o CHORD_SYMBOLS[ch.quality]

ChordSymbol(ch) ==
    PcChars(ch.root.pc) \o CHORD_SYMBOLS[ch.quality]
    \o (IF ~NoteEq(ch.bass, ch.root) THEN <<"/">> \o PcChars(ch.bass.pc) ELSE <<>>)

DefaultOctave == 4

\* Chord.from_symbol(symbol, octave)
FromSymbol(symbol, octave) ==
    LET slashes == {i \in 1..Len(symbol) : symbol[i] = "/"}
        cut == IF slashes = {} THEN Len(symbol) + 1
               ELSE CHOOSE i \in slashes : \A j \in slashes : i <= j
        chordPart == SubSeq(symbol, 1, cut - 1)
        bassPart == SubSeq(symbol, cut + 1, Len(symbol))
        bassNote == IF slashes = {} THEN None
                    ELSE NoteFromName(StrOf(bassPart), octave)
        hasAccidental == Len(chordPart) >= 2 /\ chordPart[2] \in {"#", "b"}
        rootStr == IF hasAccidental THEN chordPart[1] \o chordPart[2] ELSE chordPart[1]
        remainder == SubSeq(chordPart, IF hasAccidental THEN 3 ELSE 2, Len(chordPart))
        rootNote == NoteFromName(rootStr, octave)
        quality == ParseQuality(remainder)
    IN  IF Cardinality(slashes) > 1 THEN ValueError      \* split('/') unpacks two parts
        ELSE IF IsErr(bassNote) THEN ValueError
        ELSE IF Len(chordPart) < 1 THEN ValueError
        ELSE IF IsErr(rootNote) THEN ValueError
        ELSE IF quality = "ValueError" THEN ValueError
        ELSE Chord(rootNote, quality, bassNote)

\* the chords the round trip is tried on: every spelling of the root at the
\* octaves around the default one, every quality, no bass or one of a few
RtOctaveSpan == 1
RtOctaves == (DefaultOctave - RtOctaveSpan)..(DefaultOctave + RtOctaveSpan)
RtRootNames == SeqToSet(CHROMATIC_SCALE) \cup SeqToSet(FLAT_SCALE)
RtBassNames == {"C", "E", "Bb", "F#"}
RtRoots == {NoteFromName(n, o) : n \in RtRootNames, o \in RtOctaves}
RtBasses == {None} \cup {NoteFromName(n, o) : n \in RtBassNames, o \in RtOctaves}
RtChords == {Chord(r, q, b) : r \in RtRoots, q \in SeqToSet(Qualities), b \in RtBasses}

InitRt ==
    /\ ProgIdle /\ NoteIdle /\ ModeIdle /\ EngIdle /\ StratIdle /\ BeamIdle /\ CallIdle
    /\ rtChord \in RtChords
    /\ rtSymbol = <<>>
    /\ rtParsed = None
    /\ rtPc = "chord"

\* symbol = chord.symbol
TakeSymbol ==
    /\ rtPc = "chord"
    /\ rtSymbol' = ChordSymbol(rtChord)
    /\ rtPc' = "symbol"
    /\ UNCHANGED <<rtChord, rtParsed, notRt>>

\* parsed = Chord.from_symbol(symbol)
ParseSymbol ==
    /\ rtPc = "symbol"
    /\ rtParsed' = FromSymbol(rtSymbol, DefaultOctave)
    /\ rtPc' = "parsed"
    /\ UNCHANGED <<rtChord, rtSymbol, notRt>>

NextRt == TakeSymbol \/ ParseSymbol
SpecRt == InitRt /\ [][NextRt]_vars

\* C4 as stated: for every chord, from_symbol(chord.symbol) == chord
C4_RoundTripAnyChord ==
    rtPc = "parsed" => ~IsErr(rtParsed) /\ ChordEq(rtParsed, rtChord)

\* C4 amended: the round trip holds for the chords whose root and bass lie in
\* the octave from_symbol builds its notes in (4 by default)
C4_RoundTripDefaultOctave ==
    (/\ rtPc = "parsed"
     /\ rtChord.root.octave = DefaultOctave
     /\ rtChord.bass.octave = DefaultOctave)
    => ~IsErr(rtParsed) /\ ChordEq(rtParsed, rtChord)

\* a slash chord with a flat root in octave 4 has been parsed back
C4_Witness ==
    /\ rtPc = "parsed"
    /\ rtChord.root.octave = DefaultOctave
    /\ rtChord.bass.octave = DefaultOctave
    /\ rtChord.root.pc = "Bb"
    /\ rtChord.quality = "half_diminished7"
    /\ ~NoteEq(rtChord.bass, rtChord.root)
    /\ rtSymbol = <<"B", "b", "m", "7", "b", "5", "/", "E">>
    /\ ChordEq(rtParsed, rtChord)

(***************************************************************************)
(* Scale.from_mode called from several threads (core/scale.py).  A thread  *)
(* is preempted between the statements of the method; each statement that  *)
(* reads or writes the class attribute or a dict is one step.              *)
(***************************************************************************)
NumThreads == 2
ModeThreadIds == 1..NumThreads

\* MODE_NAMES; mode numbers are 0-based as in the code
MODE_NAMES ==
    [m \in 0..6 |->
        CASE m = 0 -> "ionian" [] m = 1 -> "dorian" [] m = 2 -> "phrygian"
          [] m = 3 -> "lydian" [] m = 4 -> "mixolydian" [] m = 5 -> "aeolian"
          [] m = 6 -> "locrian"]

\* [(degree - mode_root) % 12 for degree in pattern[mode:] + pattern[:mode]]
ModePattern(parentPattern, mode) ==
    LET n == Len(parentPattern)
        rotated == SubSeq(parentPattern, mode + 1, n) \o SubSeq(parentPattern, 1, mode)
        modeRoot == parentPattern[mode + 1]
    IN  [i \in 1..n |-> (rotated[i] - modeRoot) % 12]

\* f"{parent_scale}_mode_{mode}" for the modes the model calls with
DigitStr(mode) == CASE mode = 0 -> "0" [] mode = 1 -> "1" [] mode = 2 -> "2"
                    [] mode = 3 -> "3" [] mode = 4 -> "4" [] mode = 5 -> "5"
                    [] mode = 6 -> "6" [] OTHER -> "n"

ModeName(parent, mode) ==
    IF parent = "major" /\ mode \in DOMAIN MODE_NAMES
    THEN MODE_NAMES[mode]
    ELSE parent \o "_mode_" \o DigitStr(mode)

\* d[k] = v on a dict
DictSet(d, k, v) == [n \in DOMAIN d \cup {k} |-> IF n = k THEN v ELSE d[n]]

\* Scale(tonic, scale_type) with the catalog as the class attribute shows it
ScaleInit(patterns, scaleType) ==
    IF scaleType \notin DOMAIN patterns THEN ValueError
    ELSE [scale_type |-> scaleType]

KeyError == [error |-> "KeyError"]

\* the calls a thread may make: (mode, parent_scale)
ModeCalls ==
    { <<0, "major">>, <<1, "major">>, <<2, "harmonic_minor">>,
      <<7, "major">>, <<0, "ionian">> }

IdleThread ==
    [pc |-> "idle", mode |-> 0, parent |-> "", name |-> "", pattern |-> <<>>,
     original |-> 0, target |-> 0, result |-> None]

InitMode ==
    /\ ProgIdle /\ NoteIdle /\ RtIdle /\ EngIdle /\ StratIdle /\ BeamIdle /\ CallIdle
    /\ dicts = <<SCALE_PATTERNS>>
    /\ catalog = 1
    /\ modeThreads = [t \in ModeThreadIds |-> IdleThread]

ThreadStep(t, next) ==
    modeThreads' = [modeThreads EXCEPT ![t] = next]

\* a thread enters Scale.from_mode(tonic, mode, parent_scale)
StartFromMode(t) ==
    /\ modeThreads[t].pc = "idle"
    /\ \E c \in ModeCalls :
          ThreadStep(t, [modeThreads[t] EXCEPT !.pc = "check", !.mode = c[1],
                                               !.parent = c[2]])
    /\ UNCHANGED <<dicts, catalog, notMode>>

\* if parent_scale not in cls.SCALE_PATTERNS: raise ValueError
CheckParent(t) ==
    LET th == modeThreads[t]
    IN  /\ th.pc = "check"
        /\ IF th.parent \notin DOMAIN dicts[catalog]
           THEN ThreadStep(t, [th EXCEPT !.pc = "done", !.result = ValueError])
           ELSE ThreadStep(t, [th EXCEPT !.pc = "lookup"])
        /\ UNCHANGED <<dicts, catalog, notMode>>

\* parent_pattern = cls.SCALE_PATTERNS[parent_scale], the mode check, the
\* rotation and the mode name (locals only after the lookup)
LookupParent(t) ==
    LET th == modeThreads[t]
        d == dicts[catalog]
    IN  /\ th.pc = "lookup"
        /\ IF th.parent \notin DOMAIN d
           THEN ThreadStep(t, [th EXCEPT !.pc = "done", !.result = KeyError])
           ELSE IF th.mode >= Len(d[th.parent])
           THEN ThreadStep(t, [th EXCEPT !.pc = "done", !.result = ValueError])
           ELSE ThreadStep(t, [th EXCEPT !.pc = "copy",
                                         !.pattern = ModePattern(d[th.parent], th.mode),
                                         !.name = ModeName(th.parent, th.mode)])
        /\ UNCHANGED <<dicts, catalog, notMode>>

\* original_patterns = cls.SCALE_PATTERNS.copy()
CopyPatterns(t) ==
    LET th == modeThreads[t]
    IN  /\ th.pc = "copy"
        /\ dicts' = Append(dicts, dicts[catalog])
        /\ ThreadStep(t, [th EXCEPT !.pc = "load", !.original = Len(dicts) + 1])
        /\ UNCHANGED <<catalog, notMode>>

\* cls.SCALE_PATTERNS[mode_name] = mode_pattern: the attribute is read ...
LoadPatterns(t) ==
    LET th == modeThreads[t]
    IN  /\ th.pc = "load"
        /\ ThreadStep(t, [th EXCEPT !.pc = "store", !.target = catalog])
        /\ UNCHANGED <<dicts, catalog, notMode>>

\* ... and the item is stored into the dict that was read
StoreItem(t) ==
    LET th == modeThreads[t]
    IN  /\ th.pc = "store"
        /\ dicts' = [dicts EXCEPT ![th.target] = DictSet(@, th.name, th.pattern)]
        /\ ThreadStep(t, [th EXCEPT !.pc = "construct"])
        /\ UNCHANGED <<catalog, notMode>>

\* try: scale = cls(tonic, mode_name)
ConstructMode(t) ==
    LET th == modeThreads[t]
    IN  /\ th.pc = "construct"
        /\ ThreadStep(t, [th EXCEPT !.pc = "finally",
                                    !.result = ScaleInit(dicts[catalog], th.name)])
        /\ UNCHANGED <<dicts, catalog, notMode>>

\* finally: cls.SCALE_PATTERNS = original_patterns, then return or re-raise
RestorePatterns(t) ==
    LET th == modeThreads[t]
    IN  /\ th.pc = "finally"
        /\ catalog' = th.original
        /\ ThreadStep(t, [th EXCEPT !.pc = "done"])
        /\ UNCHANGED <<dicts, notMode>>

NextMode ==
    \E t \in ModeThreadIds :
        \/ StartFromMode(t) \/ CheckParent(t) \/ LookupParent(t)
        \/ CopyPatterns(t) \/ LoadPatterns(t) \/ StoreItem(t)
        \/ ConstructMode(t) \/ RestorePatterns(t)
SpecMode == InitMode /\ [][NextMode]_vars

\* C5: once every concurrent from_mode call has returned, the shared catalog
\* holds exactly the entries it had before the calls
C5_CatalogRestored ==
    (modeThreads # <<>> /\ \A t \in ModeThreadIds : modeThreads[t].pc = "done")
    => dicts[catalog] = SCALE_PATTERNS

(***************************************************************************)
(* ChordSuggestionEngine.get_suggestions (suggestions/suggestion_engine.py)*)
(* Confidences and voice-leading qualities are exact rationals, written as *)
(* integers in units of 1/One.  Positions are written in halves, so that   *)
(* position 1.0 is 2 and the insertion point 0.5 is 1.                     *)
(***************************************************************************)
One == 210000
Half == 2

\* ChordSuggestion (the reasoning text is left out)
ChordSuggestion(chord, confidence, position, vlq) ==
    [chord |-> chord, confidence |-> confidence, position |-> position,
     voice_leading_quality |-> vlq, strategy_source |-> None]

\* self.strategies, in the order of the constructor
EngStrategies ==
    <<"BorrowedChord", "ChromaticApproach", "Neapolitan", "SubV7", "Suspend",
      "TSDMovement">>

\* strategy_filter: None or a list of names
FilterList(names) == [names |-> names]

\* active_strategies
ActiveStrategies(filter) ==
    IF ~IsNone(filter) /\ filter.names # <<>>        \* if strategy_filter:
    THEN SelectSeq(EngStrategies, LAMBDA n : n \in SeqToSet(filter.names))
    ELSE EngStrategies

\* suggestion.strategy_source = strategy.get_strategy_name()
TagSuggestions(suggestions, name) ==
    [i \in 1..Len(suggestions) |-> [suggestions[i] EXCEPT !.strategy_source = name]]

\* key = (suggestion.chord.symbol, suggestion.position)
SuggestionKey(s) == <<StrOf(ChordSymbol(s.chord)), s.position>>

\* which of two suggestions with one key the group keeps
KeepHigherMutKeepLast(old, new) == new

KeepHigher(old, new) == IF new.confidence > old.confidence THEN new ELSE old

\* the loop of _remove_duplicates; groups is the dict's items in insertion order
RECURSIVE GroupSuggestions(_, _)
GroupSuggestions(groups, rest) ==
    IF rest = <<>> THEN groups
    ELSE LET sg == Head(rest)
             key == SuggestionKey(sg)
             hits == {i \in 1..Len(groups) : groups[i].key = key}
         IN  IF hits = {}
             THEN GroupSuggestions(Append(groups, [key |-> key, value |-> sg]), Tail(rest))
             ELSE LET i == CHOOSE j \in hits : TRUE
                  IN  GroupSuggestions([groups EXCEPT ![i].value = KeepHigher(@, sg)],
                                       Tail(rest))

\* list(seen.values())
RemoveDuplicates(suggestions) ==
    LET seen == GroupSuggestions(<<>>, suggestions)
    IN  [i \in 1..Len(seen) |-> seen[i].value]

\* sorted(..., key=lambda x: x.confidence, reverse=True): stable
RECURSIVE SortedByConfidence(_)
SortedByConfidence(suggestions) ==
    IF suggestions = <<>> THEN <<>>
    ELSE LET n == Len(suggestions)
             front == SortedByConfidence(SubSeq(suggestions, 1, n - 1))
             sg == suggestions[n]
             k == Cardinality({i \in 1..Len(front) : front[i].confidence >= sg.confidence})
         IN  SubSeq(front, 1, k) \o <<sg>> \o SubSeq(front, k + 1, Len(front))

\* the tail of get_suggestions: de-duplicate, sort, cut to max_suggestions
FinishSuggestions(allSuggestions, maxSuggestions) ==
    LET sorted == SortedByConfidence(RemoveDuplicates(allSuggestions))
    IN  SubSeq(sorted, 1, Min(maxSuggestions, Len(sorted)))

\* what a strategy's suggest did: it raised, or it returned a list
Raised == [error |-> "Exception"]
Returned(suggestions) == [list |-> suggestions]

\* except Exception: ... continue
ExceptContinueMutReraise(st) == [st EXCEPT !.raised = TRUE]

ExceptContinue(st) == st

\* one round of the loop over active_strategies
StrategyRound(st, name, outcome) ==
    IF IsErr(outcome) THEN ExceptContinue(st)
    ELSE [st EXCEPT !.all = @ \o TagSuggestions(outcome.list, name)]

DefaultMaxSuggestions == 20

\* the inputs of the model
EngChordC == Chord(NoteFromName("C", DefaultOctave), "major", None)
EngChordG7 == Chord(NoteFromName("G", DefaultOctave), "dominant7", None)
EngSuggestionLow == ChordSuggestion(EngChordC, One \div 2, 0, One \div 2)
EngSuggestionHigh == ChordSuggestion(EngChordC, (9 * One) \div 10, 0, One)
EngSuggestionOther == ChordSuggestion(EngChordG7, One \div 2, Half, One \div 2)
EngReturns == {<<>>, <<EngSuggestionLow>>, <<EngSuggestionHigh, EngSuggestionOther>>}
EngFilters ==
    {None, FilterList(<<>>), FilterList(<<"SubV7", "BorrowedChord">>),
     FilterList(<<"Suspend">>), FilterList(<<"NoSuchStrategy">>)}
EngMaxSuggestions == {1, DefaultMaxSuggestions}

InitEng == ProgIdle /\ NoteIdle /\ RtIdle /\ ModeIdle /\ EngIdle /\ StratIdle /\ BeamIdle /\ CallIdle

\* the state after a round: the next strategy, or the return of the call
EngAfter(st, todo, ran, maxSuggestions) ==
    /\ engTodo' = todo
    /\ engRan' = ran
    /\ engAll' = st.all
    /\ IF st.raised
       THEN engPc' = "raised" /\ engResult' = Raised
       ELSE IF todo = <<>>
       THEN engPc' = "returned" /\ engResult' = FinishSuggestions(st.all, maxSuggestions)
       ELSE engPc' = "loop" /\ engResult' = None

\* engine.get_suggestions(progression, key, strategy_filter, max_suggestions)
\* up to the first strategy.suggest
CallGetSuggestions ==
    /\ engPc = "idle"
    /\ \E f \in EngFilters, m \in EngMaxSuggestions :
          /\ engFilter' = f
          /\ engMax' = m
          /\ EngAfter([all |-> <<>>, raised |-> FALSE], ActiveStrategies(f), <<>>, m)
    /\ UNCHANGED notEng

\* strategy.suggest returns a list; the loop goes on to the next suggest or
\* to the end of the call
StrategyReturns ==
    /\ engPc = "loop"
    /\ \E out \in EngReturns :
          EngAfter(StrategyRound([all |-> engAll, raised |-> FALSE], Head(engTodo),
                                 Returned(out)),
                   Tail(engTodo),
                   Append(engRan, [name |-> Head(engTodo), outcome |-> Returned(out)]),
                   engMax)
    /\ UNCHANGED <<engFilter, engMax, notEng>>

\* strategy.suggest raises
StrategyRaises ==
    /\ engPc = "loop"
    /\ EngAfter(StrategyRound([all |-> engAll, raised |-> FALSE], Head(engTodo), Raised),
                Tail(engTodo),
                Append(engRan, [name |-> Head(engTodo), outcome |-> Raised]),
                engMax)
    /\ UNCHANGED <<engFilter, engMax, notEng>>

NextEng == CallGetSuggestions \/ StrategyReturns \/ StrategyRaises
SpecEng == InitEng /\ [][NextEng]_vars

\* what the strategies that ran proposed, a strategy that raised counted as
\* one that returned no suggestion
RECURSIVE ProposalsAsIfNone(_)
ProposalsAsIfNone(ran) ==
    IF ran = <<>> THEN <<>>
    ELSE (IF IsErr(Head(ran).outcome) THEN <<>>
          ELSE TagSuggestions(Head(ran).outcome.list, Head(ran).name))
         \o ProposalsAsIfNone(Tail(ran))

RanNames == {engRan[i].name : i \in 1..Len(engRan)}

\* C6: an exception of a strategy's suggest never reaches the caller of
\* get_suggestions; every selected strategy is still run and the call returns
\* the de-duplicated, ranked suggestions as if the failing strategy had
\* returned none
C6_FailingStrategySkipped ==
    /\ engPc # "raised"
    /\ engPc = "returned" =>
          /\ Len(engRan) = Len(ActiveStrategies(engFilter))
          /\ engResult = FinishSuggestions(ProposalsAsIfNone(engRan), engMax)

\* a call has returned suggestions of a strategy that ran after one that raised
C6_Witness ==
    /\ engPc = "returned"
    /\ \E i, j \in 1..Len(engRan) :
          /\ i < j
          /\ IsErr(engRan[i].outcome)
          /\ ~IsErr(engRan[j].outcome)
          /\ \E k \in 1..Len(engResult) : engResult[k].strategy_source = engRan[j].name

\* C7: the returned list never holds two suggestions with one (chord symbol,
\* position), and each returned suggestion carries the highest confidence
\* proposed for its (chord symbol, position)
C7_UniqueHighestConfidence ==
    engPc = "returned" =>
        /\ \A i, j \in 1..Len(engResult) :
              i # j => SuggestionKey(engResult[i]) # SuggestionKey(engResult[j])
        /\ \A i \in 1..Len(engResult) : \A k \in 1..Len(engAll) :
              SuggestionKey(engAll[k]) = SuggestionKey(engResult[i])
              => engAll[k].confidence <= engResult[i].confidence

\* two strategies proposed one (chord symbol, position) with different
\* confidences, the lower one last, and the returned list holds the higher
C7_Witness ==
    /\ engPc = "returned"
    /\ \E i, j \in 1..Len(engAll) :
          /\ i < j
          /\ SuggestionKey(engAll[i]) = SuggestionKey(engAll[j])
          /\ engAll[i].strategy_source # engAll[j].strategy_source
          /\ engAll[j].confidence < engAll[i].confidence
          /\ \E k \in 1..Len(engResult) : engResult[k] = engAll[i]

\* C8: called with a strategy_filter list, get_suggestions runs only the
\* strategies named in the list and returns only their suggestions; all six
\* strategies run only when no filter is given
C8_OnlyFilteredStrategiesRun ==
    (engPc = "returned" /\ ~IsNone(engFilter)) =>
        /\ RanNames \subseteq SeqToSet(engFilter.names)
        /\ \A k \in 1..Len(engResult) :
              engResult[k].strategy_source \in SeqToSet(engFilter.names)
        /\ RanNames # SeqToSet(EngStrategies)

(***************************************************************************)
(* The suggestion strategies (suggestions/*.py).  A strategy's suggest     *)
(* either raises or returns a list; for each computation that can raise    *)
(* there is a predicate saying when it does, and the value is used only    *)
(* where it does not.                                                      *)
(***************************************************************************)
\* the float n/d and the product x * (n/d), exact in units of 1/One
Frac(n, d) == (n * One) \div d
Times(x, n, d) == (x * n) \div d

\* a progression as the strategies read it
Progression(chords, key) == [chords |-> chords, key |-> key]

\* analysis_key = key or progression.key
AnalysisKey(prog, key) == IF ~IsNone(key) THEN key ELSE prog.key

\* _calculate_voice_leading_quality raises with the pitch classes of a chord
VoiceLeadingRaise(chord1, chord2) == ChordNotesRaise(chord1) \/ ChordNotesRaise(chord2)

\* the bonus for the root motion
RootMotionBonus(semitones) ==
    IF semitones \in {5, 7} THEN Frac(1, 5)
    ELSE IF semitones \in {1, 2} THEN Frac(1, 10)
    ELSE IF semitones \in {3, 4} THEN Frac(3, 20)
    ELSE 0

\* min(1.0, max(0.0, x))
ClampUnit(x) == Min(One, Max(0, x))

\* common_tones / max_possible_common
CommonToneRatio(pc1, pc2) ==
    Frac(Cardinality(pc1 \cap pc2), Min(Cardinality(pc1), Cardinality(pc2)))

\* 1.0 - effective_semitones / 12.0, with the bonus of the root motion
RootMotionQuality(rootMotionSemitones) ==
    One - Frac(Min(rootMotionSemitones, 12 - rootMotionSemitones), 12)
    + RootMotionBonus(rootMotionSemitones)

\* the quality, from the pitch classes of the two chords and the semitones
\* between their roots
VoiceLeadingOf(pc1, pc2, rootMotionSemitones) ==
    IF Min(Cardinality(pc1), Cardinality(pc2)) = 0 THEN Frac(1, 2)
    ELSE ClampUnit(Times(CommonToneRatio(pc1, pc2), 3, 5)
                   + Times(RootMotionQuality(rootMotionSemitones), 2, 5))

\* _calculate_voice_leading_quality counting the first chord's tones twice
VoiceLeadingQualityMutSelfTones(chord1, chord2) ==
    VoiceLeadingOf(PitchClasses(chord1), PitchClasses(chord1),
                   Abs(IntervalFromNotes(chord1.root, chord2.root).simple))

\* ChordSuggestionStrategy._calculate_voice_leading_quality
VoiceLeadingQuality(chord1, chord2) ==
    VoiceLeadingOf(PitchClasses(chord1), PitchClasses(chord2),
                   Abs(IntervalFromNotes(chord1.root, chord2.root).simple))

\* _get_scale_degree: None (0) when anything raises
GetScaleDegree(ch, key) ==
    IF ScaleNotesRaise(key.scale) THEN 0 ELSE ScaleGetNoteDegree(key.scale, ch.root)

\* _is_diatonic_chord and _get_harmonic_function raise with analyze_chord
IsDiatonicChord(ch, key) == AnalyzeChord(key, ch).is_diatonic
GetHarmonicFunction(ch, key) == AnalyzeChord(key, ch).function

\* _is_cadential_position
IsCadentialPosition(prog, position) == position >= Len(prog.chords) - 2

\* positions are 0-based as in the code; chords[position] is ChordAt
ChordAt(prog, position) == prog.chords[position + 1]
HasNext(prog, position) == position < Len(prog.chords) - 1

\* float(position) and position + 0.5, in halves
FloatPos(position) == Half * position
BetweenPos(position) == Half * position + 1

\* the concatenation of the lists f[lo], ..., f[hi]
RECURSIVE Flatten(_, _, _)
Flatten(f, lo, hi) == IF lo > hi THEN <<>> ELSE f[lo] \o Flatten(f, lo + 1, hi)

(***************************************************************************)
(* SuspendStrategy (suggestions/suspend.py)                                *)
(***************************************************************************)
IsGoodSuspensionCandidate(ch) ==
    ch.quality \in {"major", "minor", "dominant7", "dominant9", "dominant11",
                    "dominant13", "major7", "minor7"}

CanUseSus2(ch) == ch.quality \in {"major", "minor", "major7", "minor7"}

CanUseSus4(ch) ==
    ch.quality \in {"major", "minor", "dominant7", "major7", "minor7",
                    "dominant9", "major9", "minor9"}

\* min(0.95, x)
Cap95(x) == Min(Frac(19, 20), x)

\* _calculate_suspension_confidence
SuspensionConfidence(original, key, susType) ==
    Cap95((IF susType = "sus2" THEN Frac(3, 4) ELSE Frac(4, 5))
          + (IF ~IsNone(key) /\ GetHarmonicFunction(original, key) \in {"dominant", "subdominant"}
             THEN Frac(3, 20) ELSE 0)
          + (IF susType = "sus4" /\ original.quality \in {"dominant7", "major"}
             THEN Frac(1, 10) ELSE 0)
          + (IF original.quality \in {"major", "minor"} THEN Frac(1, 20) ELSE 0))

\* what makes the try block of one suspension give up
SuspensionRaise(ch, key, susChord) ==
    \/ ~IsNone(key) /\ AnalyzeChordRaise(key, ch)
    \/ VoiceLeadingRaise(ch, susChord)

\* _generate_suspensions
GenerateSuspensions(ch, key, position) ==
    LET sus2Chord == Chord(ch.root, "sus2", ch.bass)
        sus4Chord == Chord(ch.root, "sus4", ch.bass)
        sus4Confidence ==
            IF ch.quality \in {"dominant7", "major"}
            THEN Cap95(SuspensionConfidence(ch, key, "sus4") + Frac(1, 10))
            ELSE SuspensionConfidence(ch, key, "sus4")
    IN  (IF CanUseSus2(ch) /\ ~SuspensionRaise(ch, key, sus2Chord)
         THEN <<ChordSuggestion(sus2Chord, SuspensionConfidence(ch, key, "sus2"),
                                FloatPos(position), VoiceLeadingQuality(ch, sus2Chord))>>
         ELSE <<>>)
        \o
        (IF CanUseSus4(ch) /\ ~SuspensionRaise(ch, key, sus4Chord)
         THEN <<ChordSuggestion(sus4Chord, sus4Confidence,
                                FloatPos(position), VoiceLeadingQuality(ch, sus4Chord))>>
         ELSE <<>>)

\* _chords_suitable_for_suspension_resolution raises with the pitch classes,
\* which it reads when the roots differ
SuitableForResolutionRaise(chord1, chord2) ==
    chord1.root.pc # chord2.root.pc /\ (ChordNotesRaise(chord1) \/ ChordNotesRaise(chord2))

SuitableForResolution(chord1, chord2) ==
    \/ chord1.root.pc = chord2.root.pc
    \/ Cardinality(PitchClasses(chord1) \cap PitchClasses(chord2)) >= 2
    \/ chord1.quality \in {"dominant7", "dominant9"} /\ chord2.quality \in {"major", "minor"}

\* _create_resolving_suspension
CreateResolvingSuspension(chord1, chord2) ==
    IF chord1.root.pc = chord2.root.pc /\ chord2.quality \in {"major", "minor"}
    THEN IF chord1.quality # "sus4" THEN Chord(chord1.root, "sus4", chord1.bass)
         ELSE IF chord1.quality # "sus2" THEN Chord(chord1.root, "sus2", chord1.bass)
         ELSE None
    ELSE None

\* _generate_suspension_resolutions
GenerateSuspensionResolutions(chord1, chord2, position) ==
    IF SuitableForResolution(chord1, chord2)
       /\ ~IsNone(CreateResolvingSuspension(chord1, chord2))
    THEN <<ChordSuggestion(CreateResolvingSuspension(chord1, chord2), Frac(17, 20),
                           FloatPos(position), Frac(9, 10))>>
    ELSE <<>>

\* SuspendStrategy.suggest
SuspendSuggest(prog, key) ==
    LET k == AnalysisKey(prog, key)
        n == Len(prog.chords)
        suspensions ==
            [i \in 1..n |->
                IF IsGoodSuspensionCandidate(prog.chords[i])
                THEN GenerateSuspensions(prog.chords[i], k, i - 1) ELSE <<>>]
        resolutions ==
            [i \in 1..(n - 1) |->
                GenerateSuspensionResolutions(prog.chords[i], prog.chords[i + 1], i - 1)]
    IN  IF \E i \in 1..(n - 1) :
              SuitableForResolutionRaise(prog.chords[i], prog.chords[i + 1])
        THEN Raised
        ELSE Returned(SortedByConfidence(Flatten(suspensions, 1, n)
                                         \o Flatten(resolutions, 1, n - 1)))

(***************************************************************************)
(* TSDMovementStrategy (suggestions/tsd_movement.py)                       *)
(***************************************************************************)
\* FUNCTIONAL_GROUPS[mode][function]
FUNCTIONAL_GROUPS(mode, function) ==
    CASE function = "tonic" -> <<1, 6, 3>>
      [] function = "subdominant" -> IF mode = "major" THEN <<4, 2>> ELSE <<4, 2, 6>>
      [] function = "dominant" -> <<5, 7>>

Functions == {"tonic", "subdominant", "dominant"}

\* _calculate_functional_confidence
FunctionalConfidence(current, suggested, function, key) ==
    LET suggestedDegree == GetScaleDegree(suggested, key)
        primary == CASE function = "tonic" -> 1 [] function = "subdominant" -> 4
                     [] function = "dominant" -> 5 [] OTHER -> 0
        common == CASE function = "tonic" -> {6} [] function = "subdominant" -> {2}
                    [] OTHER -> {}
    IN  IF suggestedDegree = 0 THEN Frac(3, 5)
        ELSE Cap95(Frac(3, 5)
                   + (IF function \in Functions /\ suggestedDegree = primary
                      THEN Frac(1, 5) ELSE 0)
                   + (IF suggestedDegree \in common THEN Frac(3, 20) ELSE 0)
                   + Times(VoiceLeadingQuality(current, suggested), 3, 20))

\* _suggest_functional_improvements
FunctionalImprovements(prog, position, function, key) ==
    LET current == ChordAt(prog, position)
        degree == GetScaleDegree(current, key)
        group == FUNCTIONAL_GROUPS(key.mode, function)
        one(altDegree) ==
            LET alt == KeyGetChordForDegree(key, altDegree)
            IN  IF /\ altDegree # degree
                   /\ ~ChordEq(alt, current)
                   /\ ~(GetScaleDegree(alt, key) # 0 /\ VoiceLeadingRaise(current, alt))
                   /\ FunctionalConfidence(current, alt, function, key) > Frac(3, 5)
                THEN <<ChordSuggestion(alt, FunctionalConfidence(current, alt, function, key),
                                       FloatPos(position), VoiceLeadingQuality(current, alt))>>
                ELSE <<>>
    IN  IF degree # 0 /\ function \in Functions
        THEN Flatten([j \in 1..Len(group) |-> one(group[j])], 1, Len(group))
        ELSE <<>>

\* _should_insert_functional_bridge
ShouldInsertFunctionalBridge(func1, func2) ==
    <<func1, func2>> \in {<<"tonic", "dominant">>, <<"dominant", "subdominant">>,
                          <<"tonic", "tonic">>, <<"subdominant", "subdominant">>,
                          <<"dominant", "dominant">>}

\* _get_functional_bridge_suggestions
FunctionalBridgeSuggestions(func1, func2, key, position) ==
    LET sub == FUNCTIONAL_GROUPS(key.mode, "subdominant")
    IN  IF func1 = "tonic" /\ func2 = "dominant"
        THEN [j \in 1..Len(sub) |->
                ChordSuggestion(KeyGetChordForDegree(key, sub[j]), Frac(4, 5),
                                BetweenPos(position), Frac(4, 5))]
        ELSE IF func1 = "dominant" /\ func2 = "subdominant"
        THEN <<ChordSuggestion(KeyGetChordForDegree(key, FUNCTIONAL_GROUPS(key.mode, "tonic")[1]),
                               Frac(7, 10), BetweenPos(position), Frac(3, 4))>>
        ELSE <<>>

\* _suggest_cadential_completions; functions is the functional analysis
CadentialCompletions(prog, functions, key) ==
    LET n == Len(functions)
    IN  IF n >= 2 /\ <<functions[n - 1], functions[n]>> # <<"dominant", "tonic">>
        THEN IF functions[n] = "dominant"
             THEN <<ChordSuggestion(KeyGetChordForDegree(key, 1), Frac(9, 10),
                                    FloatPos(Len(prog.chords)), Frac(19, 20))>>
             ELSE IF functions[n - 1] # "dominant"
             THEN <<ChordSuggestion(KeyGetChordForDegree(key, 5), Frac(17, 20),
                                    FloatPos(Len(prog.chords)), Frac(4, 5))>>
             ELSE <<>>
        ELSE <<>>

\* TSDMovementStrategy.suggest
TSDMovementSuggest(prog, key) ==
    LET k == AnalysisKey(prog, key)
        n == Len(prog.chords)
        functions == [i \in 1..n |-> GetHarmonicFunction(prog.chords[i], k)]
        improvements == [i \in 1..n |-> FunctionalImprovements(prog, i - 1, functions[i], k)]
        bridges ==
            [i \in 1..(n - 1) |->
                IF ShouldInsertFunctionalBridge(functions[i], functions[i + 1])
                THEN FunctionalBridgeSuggestions(functions[i], functions[i + 1], k, i - 1)
                ELSE <<>>]
    IN  IF IsNone(k) THEN Returned(<<>>)
        ELSE IF \E i \in 1..n : AnalyzeChordRaise(k, prog.chords[i]) THEN Raised
        ELSE Returned(SortedByConfidence(Flatten(improvements, 1, n)
                                         \o Flatten(bridges, 1, n - 1)
                                         \o CadentialCompletions(prog, functions, k)))

(***************************************************************************)
(* SubV7Strategy (suggestions/sub_v7.py)                                   *)
(***************************************************************************)
DominantQualities == {"dominant7", "dominant9", "dominant11", "dominant13"}

\* _is_substitutable_dominant; raises with analyze_chord for a dominant quality
IsSubstitutableDominantRaise(ch, key) ==
    ch.quality \in DominantQualities /\ AnalyzeChordRaise(key, ch)

IsSubstitutableDominant(ch, key) ==
    /\ ch.quality \in DominantQualities
    /\ \/ GetHarmonicFunction(ch, key) = "dominant"
       \/ ~IsDiatonicChord(ch, key)

\* _calculate_bass_motion_smoothness, in tenths
BassMotionSmoothness(chord1, chord2) ==
    LET semitones == Abs(IntervalFromNotes(chord1.root, chord2.root).simple)
    IN  IF semitones <= 2 THEN 10
        ELSE IF semitones <= 4 THEN 7
        ELSE IF semitones \in {5, 7} THEN 6
        ELSE 4

\* _creates_smooth_bass_line
CreatesSmoothBassLine(subChord, prog, position) ==
    \/ position > 0 /\ BassMotionSmoothness(ChordAt(prog, position - 1), subChord) >= 8
    \/ HasNext(prog, position)
       /\ BassMotionSmoothness(subChord, ChordAt(prog, position + 1)) >= 8

\* _appears_to_be_jazz_context: jazz_indicators >= len(chords) / 2
AppearsToBeJazzContext(prog) ==
    2 * Cardinality({i \in 1..Len(prog.chords) :
                        prog.chords[i].quality \in
                            {"major7", "minor7", "dominant7", "dominant9", "dominant11",
                             "dominant13", "minor9", "major9"}})
    >= Len(prog.chords)

\* _calculate_sub_confidence raises with the analysis of the next chord
SubConfidenceRaise(key, position, prog) ==
    HasNext(prog, position) /\ AnalyzeChordRaise(key, ChordAt(prog, position + 1))

SubConfidence(original, subChord, key, position, prog) ==
    Cap95(Frac(4, 5)
          + (IF GetScaleDegree(original, key) = 5 THEN Frac(1, 10) ELSE 0)
          + (IF CreatesSmoothBassLine(subChord, prog, position) THEN Frac(1, 10) ELSE 0)
          + (IF HasNext(prog, position)
                /\ GetHarmonicFunction(ChordAt(prog, position + 1), key) = "tonic"
             THEN Frac(1, 10) ELSE 0)
          + (IF AppearsToBeJazzContext(prog) THEN Frac(3, 20) ELSE 0))

\* _calculate_tritone_voice_leading started from 0.8 instead of 0.85
TritoneVoiceLeadingMutLowBase(original, subChord, prog, position) ==
    Min(One,
        Frac(4, 5)
        + (IF HasNext(prog, position)
              /\ BassMotionSmoothness(subChord, ChordAt(prog, position + 1))
                 > BassMotionSmoothness(original, ChordAt(prog, position + 1))
           THEN Frac(1, 10) ELSE 0))

\* _calculate_tritone_voice_leading
TritoneVoiceLeading(original, subChord, prog, position) ==
    Min(One,
        Frac(17, 20)
        + (IF HasNext(prog, position)
              /\ BassMotionSmoothness(subChord, ChordAt(prog, position + 1))
                 > BassMotionSmoothness(original, ChordAt(prog, position + 1))
           THEN Frac(1, 10) ELSE 0))

\* _get_altered_dominant_qualities: the altered qualities CHORD_TONES knows
AlteredDominantQualities ==
    SelectSeq(<<"dominant7b5", "dominant7#5">>, LAMBDA q : q \in DOMAIN CHORD_TONES)

\* _generate_sub_variations
GenerateSubVariations(subRoot, original, key, position, prog) ==
    LET variation(quality, n, d, vlq) ==
            ChordSuggestion(Chord(subRoot, quality, None),
                            Times(SubConfidence(original, Chord(subRoot, quality, None),
                                                key, position, prog), n, d),
                            FloatPos(position), vlq)
    IN  (IF original.quality = "dominant7"
         THEN <<variation("dominant9", 17, 20, Frac(4, 5)),
                variation("dominant13", 17, 20, Frac(4, 5))>>
         ELSE <<>>)
        \o [j \in 1..Len(AlteredDominantQualities) |->
               variation(AlteredDominantQualities[j], 3, 4, Frac(3, 4))]

\* _generate_tritone_substitutions, for a root the tritone can be built on
GenerateTritoneSubstitutions(dominantChord, key, position, prog) ==
    LET subRoot == NoteTranspose(dominantChord.root, 6)
        subChord == Chord(subRoot, dominantChord.quality, None)
    IN  IF SubConfidenceRaise(key, position, prog) THEN <<>>
        ELSE <<ChordSuggestion(subChord,
                               SubConfidence(dominantChord, subChord, key, position, prog),
                               FloatPos(position),
                               TritoneVoiceLeading(dominantChord, subChord, prog, position))>>
             \o GenerateSubVariations(subRoot, dominantChord, key, position, prog)

\* SubV7Strategy.suggest: the loop stops at the first chord that raises
RECURSIVE SubV7Loop(_, _, _, _)
SubV7Loop(prog, key, position, acc) ==
    IF position >= Len(prog.chords) THEN Returned(SortedByConfidence(acc))
    ELSE LET ch == ChordAt(prog, position)
         IN  IF IsSubstitutableDominantRaise(ch, key) THEN Raised
             ELSE IF ~IsSubstitutableDominant(ch, key)
             THEN SubV7Loop(prog, key, position + 1, acc)
             ELSE IF IsErr(NoteTranspose(ch.root, 6)) THEN Raised
             ELSE SubV7Loop(prog, key, position + 1,
                            acc \o GenerateTritoneSubstitutions(ch, key, position, prog))

SubV7Suggest(prog, key) ==
    IF IsNone(AnalysisKey(prog, key)) THEN Returned(<<>>)
    ELSE SubV7Loop(prog, AnalysisKey(prog, key), 0, <<>>)

(***************************************************************************)
(* NeapolitanStrategy (suggestions/neapolitan.py)                          *)
(***************************************************************************)
\* any(function(c) == 'dominant' for c in chords[from:]): "yes", "no", or
\* "raise" when an analysis raises before a dominant is found
RECURSIVE AnyDominantFrom(_, _, _)
AnyDominantFrom(prog, key, from) ==
    IF from >= Len(prog.chords) THEN "no"
    ELSE IF AnalyzeChordRaise(key, ChordAt(prog, from)) THEN "raise"
    ELSE IF GetHarmonicFunction(ChordAt(prog, from), key) = "dominant" THEN "yes"
    ELSE AnyDominantFrom(prog, key, from + 1)

\* _is_good_neapolitan_position: "yes", "no" or "raise"
IsGoodNeapolitanPosition(prog, position, key) ==
    LET current == ChordAt(prog, position)
    IN  IF AnalyzeChordRaise(key, current) THEN "raise"
        ELSE IF GetHarmonicFunction(current, key) = "subdominant" THEN "yes"
        ELSE IF HasNext(prog, position)
                /\ AnalyzeChordRaise(key, ChordAt(prog, position + 1)) THEN "raise"
        ELSE IF HasNext(prog, position)
                /\ GetHarmonicFunction(ChordAt(prog, position + 1), key) = "dominant" THEN "yes"
        ELSE IF IsCadentialPosition(prog, position) /\ HasNext(prog, position)
                /\ AnyDominantFrom(prog, key, position + 1) # "no"
        THEN AnyDominantFrom(prog, key, position + 1)
        ELSE IF GetScaleDegree(current, key) = 2 THEN "yes"
        ELSE "no"

\* _analyze_neapolitan_resolution raises with the analysis of the next chords
NeapolitanResolutionRaise(prog, position, key) ==
    /\ HasNext(prog, position)
    /\ \/ AnalyzeChordRaise(key, ChordAt(prog, position + 1))
       \/ /\ GetHarmonicFunction(ChordAt(prog, position + 1), key) = "dominant"
          /\ position < Len(prog.chords) - 2
          /\ AnalyzeChordRaise(key, ChordAt(prog, position + 2))

\* _analyze_neapolitan_resolution
AnalyzeNeapolitanResolution(prog, position, key) ==
    LET dominantNext == HasNext(prog, position)
                        /\ GetHarmonicFunction(ChordAt(prog, position + 1), key) = "dominant"
        tonicAfter == dominantNext /\ position < Len(prog.chords) - 2
                      /\ GetHarmonicFunction(ChordAt(prog, position + 2), key) = "tonic"
    IN  [has_dominant_resolution |-> dominantNext,
         resolution_quality |-> Frac(1, 2) + (IF dominantNext THEN Frac(3, 10) ELSE 0)
                                + (IF tonicAfter THEN Frac(1, 5) ELSE 0)]

\* the cap on the confidence of a Neapolitan suggestion
NeapolitanCapMutNoCap(x) == x

NeapolitanCap(x) == Min(Frac(19, 20), x)

\* _calculate_neapolitan_confidence
NeapolitanConfidence(current, neapolitan, key, position, chordType, prog) ==
    LET resolution == AnalyzeNeapolitanResolution(prog, position, key)
        base == (CASE chordType = "sixth" -> Frac(17, 20)
                   [] chordType = "root" -> Frac(13, 20)
                   [] chordType = "seventh" -> Frac(3, 4)
                   [] OTHER -> Frac(7, 10))
                + (IF key.mode = "minor" THEN Frac(1, 10) ELSE 0)
                + (IF GetHarmonicFunction(current, key) = "subdominant" THEN Frac(1, 10) ELSE 0)
                + (IF GetScaleDegree(current, key) = 2 THEN Frac(3, 20) ELSE 0)
                + (IF resolution.has_dominant_resolution THEN Frac(1, 10) ELSE 0)
                + Times(resolution.resolution_quality, 1, 5)
        voiceLeading == VoiceLeadingQuality(current, neapolitan)
                        + (IF chordType = "sixth" THEN Frac(1, 10) ELSE 0)
    IN  NeapolitanCap(base + Times(voiceLeading, 1, 10))

\* _generate_neapolitan_chords, for a tonic the flat second can be built on
GenerateNeapolitanChords(current, key, position, prog) ==
    LET flatIIRoot == NoteTranspose(key.tonic, 1)
        triad == Chord(flatIIRoot, "major", None)
        sixth == Chord(flatIIRoot, "major", ChordNotes(triad)[2])
        seventh == Chord(flatIIRoot, "dominant7", None)
        suggestion(ch, chordType) ==
            ChordSuggestion(ch, NeapolitanConfidence(current, ch, key, position, chordType, prog),
                            FloatPos(position), VoiceLeadingQuality(current, ch))
    IN  IF \/ NeapolitanResolutionRaise(prog, position, key)
           \/ ChordNotesRaise(current)
           \/ ChordNotesRaise(triad)
        THEN <<>>
        ELSE <<suggestion(sixth, "sixth"), suggestion(triad, "root")>>
             \o (IF ChordNotesRaise(seventh) THEN <<>>
                 ELSE <<suggestion(seventh, "seventh")>>)

\* NeapolitanStrategy.suggest: the loop stops at the first position that raises
RECURSIVE NeapolitanLoop(_, _, _, _)
NeapolitanLoop(prog, key, position, acc) ==
    IF position >= Len(prog.chords) THEN Returned(SortedByConfidence(acc))
    ELSE LET good == IsGoodNeapolitanPosition(prog, position, key)
         IN  IF good = "raise" THEN Raised
             ELSE IF good = "no" THEN NeapolitanLoop(prog, key, position + 1, acc)
             ELSE IF IsErr(NoteTranspose(key.tonic, 1)) THEN Raised
             ELSE NeapolitanLoop(prog, key, position + 1,
                                 acc \o GenerateNeapolitanChords(ChordAt(prog, position),
                                                                 key, position, prog))

NeapolitanSuggest(prog, key) ==
    IF IsNone(AnalysisKey(prog, key)) THEN Returned(<<>>)
    ELSE NeapolitanLoop(prog, AnalysisKey(prog, key), 0, <<>>)

(***************************************************************************)
(* BorrowedChordStrategy (suggestions/borrowed_chord.py)                   *)
(***************************************************************************)
\* _is_good_borrowed_chord_position: "yes", "no" or "raise"
IsGoodBorrowedChordPosition(prog, position, key) ==
    LET current == ChordAt(prog, position)
    IN  IF AnalyzeChordRaise(key, current) THEN "raise"
        ELSE IF ~IsDiatonicChord(current, key) THEN "no"
        ELSE IF IsCadentialPosition(prog, position) THEN "yes"
        ELSE IF GetHarmonicFunction(current, key) \in {"subdominant", "tonic"} THEN "yes"
        ELSE IF ~HasNext(prog, position) THEN "no"
        ELSE IF AnalyzeChordRaise(key, ChordAt(prog, position + 1)) THEN "raise"
        ELSE IF GetHarmonicFunction(ChordAt(prog, position + 1), key) = "dominant" THEN "yes"
        ELSE "no"

\* _calculate_borrowed_chord_confidence
BorrowedChordConfidence(current, borrowed, key, position, prog) ==
    LET function == GetHarmonicFunction(current, key)
    IN  Cap95(Frac(7, 10)
              + (IF key.mode = "minor" THEN Frac(1, 10) ELSE 0)
              + (IF function = "subdominant" THEN Frac(1, 10)
                 ELSE IF function = "tonic" /\ position > 0 THEN Frac(1, 20)
                 ELSE 0)
              + Times(VoiceLeadingQuality(current, borrowed), 3, 20)
              + (IF position >= Len(prog.chords) - 2 THEN Frac(1, 10) ELSE 0))

\* _calculate_modal_borrowed_confidence
ModalBorrowedConfidence(current, borrowed, sourceMode) ==
    Min(Frac(9, 10),
        Frac(13, 20)
        + (IF sourceMode = "mixolydian" THEN Frac(3, 20) ELSE 0)
        + Times(VoiceLeadingQuality(current, borrowed), 1, 10))

\* _generate_modal_borrowed_chords
GenerateModalBorrowedChords(current, key, degree, position) ==
    LET modal(semitones, sourceMode) ==
            LET root == NoteTranspose(key.tonic, semitones)
                ch == Chord(root, "major", None)
            IN  IF IsErr(root) THEN <<>>
                ELSE IF VoiceLeadingRaise(current, ch) THEN <<>>
                ELSE <<ChordSuggestion(ch, ModalBorrowedConfidence(current, ch, sourceMode),
                                       FloatPos(position), VoiceLeadingQuality(current, ch))>>
    IN  IF key.mode # "major" THEN <<>>
        ELSE (IF degree = 7 THEN modal(10, "mixolydian") ELSE <<>>)
             \o (IF degree = 3 THEN modal(3, "natural_minor") ELSE <<>>)

\* _generate_borrowed_chords
GenerateBorrowedChords(current, key, position, prog) ==
    LET degree == GetScaleDegree(current, key)
        parallel == ParallelKey(key)
        borrowed == KeyGetChordForDegree(parallel, degree)
    IN  IF degree = 0 THEN <<>>
        ELSE (IF ScaleNotesRaise(parallel.scale) THEN <<>>
              ELSE IF ChordEq(borrowed, current) THEN <<>>
              ELSE IF AnalyzeChordRaise(key, current) \/ VoiceLeadingRaise(current, borrowed)
              THEN <<>>
              ELSE <<ChordSuggestion(borrowed,
                                     BorrowedChordConfidence(current, borrowed, key, position, prog),
                                     FloatPos(position), VoiceLeadingQuality(current, borrowed))>>)
             \o GenerateModalBorrowedChords(current, key, degree, position)

\* BorrowedChordStrategy.suggest: the loop stops at the first position that raises
RECURSIVE BorrowedChordLoop(_, _, _, _)
BorrowedChordLoop(prog, key, position, acc) ==
    IF position >= Len(prog.chords) THEN Returned(SortedByConfidence(acc))
    ELSE LET good == IsGoodBorrowedChordPosition(prog, position, key)
         IN  IF good = "raise" THEN Raised
             ELSE IF good = "no" THEN BorrowedChordLoop(prog, key, position + 1, acc)
             ELSE BorrowedChordLoop(prog, key, position + 1,
                                    acc \o GenerateBorrowedChords(ChordAt(prog, position),
                                                                  key, position, prog))

BorrowedChordSuggest(prog, key) ==
    IF IsNone(AnalysisKey(prog, key)) THEN Returned(<<>>)
    ELSE BorrowedChordLoop(prog, AnalysisKey(prog, key), 0, <<>>)

(***************************************************************************)
(* ChromaticApproachStrategy (suggestions/chromatic_approach.py)           *)
(***************************************************************************)
\* _should_suggest_passing_chord
ShouldSuggestPassingChord(iv) ==
    LET semitones == Abs(IntervalSemitones(iv))
    IN  (2 <= semitones /\ semitones <= 7) \/ semitones \in {5, 7}

\* _is_minor_passing_appropriate: a raise counts as False
IsMinorPassingAppropriate(root, key) ==
    ~ScaleNotesRaise(key.scale) /\ ScaleContainsNote(key.scale, root)

\* _is_major_passing_appropriate: a raise counts as False
IsMajorPassingAppropriate(root, key) ==
    ~ScaleNotesRaise(key.scale) /\ ScaleGetNoteDegree(key.scale, root) \in {1, 4, 5}

\* _could_be_secondary_dominant
CouldBeSecondaryDominant(root, target) ==
    Abs(IntervalFromNotes(root, target.root).simple) = 7

\* _get_passing_chord_qualities: (quality, confidence_mod as a fraction)
PassingChordQualities(root, chord2, key) ==
    <<<<"diminished7", 1, 1>>, <<"dominant7", 17, 20>>, <<"half_diminished7", 3, 4>>>>
    \o (IF IsMinorPassingAppropriate(root, key) THEN <<<<"minor", 13, 20>>>> ELSE <<>>)
    \o (IF IsMajorPassingAppropriate(root, key) THEN <<<<"major", 3, 5>>>> ELSE <<>>)
    \o (IF CouldBeSecondaryDominant(root, chord2) THEN <<<<"dominant7", 9, 10>>>> ELSE <<>>)

\* the loop over the options in _generate_descending_passing_chords and
\* _generate_ascending_passing_chords; an option that raises is skipped
RECURSIVE PassingLoop(_, _, _, _, _, _, _, _)
PassingLoop(options, k, passingRoot, chord1, chord2, position, base, cap) ==
    IF k > Len(options) THEN <<>>
    ELSE LET passing == Chord(passingRoot, options[k][1], None)
             avg == (VoiceLeadingQuality(chord1, passing)
                     + VoiceLeadingQuality(passing, chord2)) \div 2
             rest == PassingLoop(options, k + 1, passingRoot, chord1, chord2,
                                 position, base, cap)
         IN  IF VoiceLeadingRaise(chord1, passing) \/ VoiceLeadingRaise(passing, chord2)
             THEN rest
             ELSE <<ChordSuggestion(passing,
                                    Min(cap, Times(base, options[k][2], options[k][3])
                                             + Times(avg, 1, 5)),
                                    BetweenPos(position), avg)>> \o rest

\* _generate_passing_chords, for a passing root that exists
GeneratePassingChords(chord1, chord2, key, position) ==
    LET distance == IntervalSemitones(IntervalFromNotes(chord1.root, chord2.root))
        step == IF distance <= -2 THEN -1 ELSE 1
        passingRoot == NoteTranspose(chord1.root, step)
    IN  IF distance > -2 /\ distance < 2 THEN <<>>
        ELSE PassingLoop(PassingChordQualities(passingRoot, chord2, key), 1,
                         passingRoot, chord1, chord2, position,
                         IF step = -1 THEN Frac(3, 4) ELSE Frac(7, 10),
                         IF step = -1 THEN Frac(19, 20) ELSE Frac(9, 10))

\* chord1.root.transpose(-1) / transpose(1) is outside every try
PassingRootRaise(chord1, chord2) ==
    LET distance == IntervalSemitones(IntervalFromNotes(chord1.root, chord2.root))
    IN  \/ distance <= -2 /\ IsErr(NoteTranspose(chord1.root, -1))
        \/ distance >= 2 /\ IsErr(NoteTranspose(chord1.root, 1))

\* ChromaticApproachStrategy.suggest
RECURSIVE ChromaticApproachLoop(_, _, _, _)
ChromaticApproachLoop(prog, key, position, acc) ==
    IF position >= Len(prog.chords) - 1 THEN Returned(SortedByConfidence(acc))
    ELSE LET chord1 == ChordAt(prog, position)
             chord2 == ChordAt(prog, position + 1)
         IN  IF ~ShouldSuggestPassingChord(IntervalFromNotes(chord1.root, chord2.root))
             THEN ChromaticApproachLoop(prog, key, position + 1, acc)
             ELSE IF PassingRootRaise(chord1, chord2) THEN Raised
             ELSE ChromaticApproachLoop(prog, key, position + 1,
                                        acc \o GeneratePassingChords(chord1, chord2,
                                                                     key, position))

ChromaticApproachSuggest(prog, key) ==
    IF IsNone(AnalysisKey(prog, key)) THEN Returned(<<>>)
    ELSE ChromaticApproachLoop(prog, AnalysisKey(prog, key), 0, <<>>)

(***************************************************************************)
(* One call of a strategy's suggest(progression, key).  The progression is *)
(* any list of up to MaxStratLen chords over a small alphabet that has the *)
(* diatonic chords of C major, a dominant seventh, and a chord on the      *)
(* highest MIDI note, whose upper chord tones do not exist.                *)
(***************************************************************************)
MaxStratLen == 3

StratChord(name, quality) == Chord(NoteFromName(name, DefaultOctave), quality, None)
StratHighChord == Chord(NoteFromMidi(MidiMax), "major", None)
StratChords ==
    {StratChord("C", "major"), StratChord("D", "minor"), StratChord("E", "minor"),
     StratChord("F", "major"), StratChord("G", "dominant7"),
     StratChord("B", "diminished"), StratHighChord}
StratKeyC == Key(NoteFromName("C", DefaultOctave), "major")
StratKeyAm == Key(NoteFromName("A", DefaultOctave), "minor")
StratKeyHigh == Key(NoteFromMidi(MidiMax), "major")
StratProgKeys == {None, StratKeyC}
StratKeys == {None, StratKeyC, StratKeyAm, StratKeyHigh}
StratProgressions ==
    {Progression(chords, k) :
        chords \in UNION {[1..n -> StratChords] : n \in 1..MaxStratLen},
        k \in StratProgKeys}

InitStrat ==
    /\ ProgIdle /\ NoteIdle /\ RtIdle /\ ModeIdle /\ EngIdle /\ BeamIdle /\ CallIdle
    /\ stProg \in StratProgressions
    /\ stKey \in StratKeys
    /\ stName = "none"
    /\ stOut = None

\* the call strategy.suggest(stProg, stKey) of the strategy called name
Suggest(name, outcome) ==
    /\ stName = "none"
    /\ stName' = name
    /\ stOut' = outcome
    /\ UNCHANGED <<stProg, stKey>>
    /\ UNCHANGED notStrat

SuggestBorrowedChord == Suggest("BorrowedChord", BorrowedChordSuggest(stProg, stKey))
SuggestChromaticApproach ==
    Suggest("ChromaticApproach", ChromaticApproachSuggest(stProg, stKey))
SuggestNeapolitan == Suggest("Neapolitan", NeapolitanSuggest(stProg, stKey))
SuggestSubV7 == Suggest("SubV7", SubV7Suggest(stProg, stKey))
SuggestSuspend == Suggest("Suspend", SuspendSuggest(stProg, stKey))
SuggestTSDMovement == Suggest("TSDMovement", TSDMovementSuggest(stProg, stKey))

NextStrat ==
    \/ SuggestBorrowedChord
    \/ SuggestChromaticApproach
    \/ SuggestNeapolitan
    \/ SuggestSubV7
    \/ SuggestSuspend
    \/ SuggestTSDMovement
SpecStrat == InitStrat /\ [][NextStrat]_vars

\* the suggestions a call that returned gave back
StratSuggestions ==
    IF IsNone(stOut) \/ IsErr(stOut) THEN {}
    ELSE {stOut.list[i] : i \in 1..Len(stOut.list)}

InUnit(x) == 0 <= x /\ x <= One

\* C9: every suggestion a built-in strategy returns has a confidence in
\* [0.0, 1.0] and a voice_leading_quality in [0.0, 1.0]
C9_ConfidenceAndQualityInUnit ==
    \A sg \in StratSuggestions :
        InUnit(sg.confidence) /\ InUnit(sg.voice_leading_quality)

\* the Neapolitan strategy returned a suggestion whose confidence is at the cap
C9_Witness ==
    /\ stName = "Neapolitan"
    /\ \E sg \in StratSuggestions : sg.confidence = Frac(19, 20)

(***************************************************************************)
(* The engine on a real progression: get_suggestions with the six          *)
(* strategies, and get_suggestions_for_position                            *)
(***************************************************************************)
\* strategy.suggest(progression, key) of the strategy called name
StrategySuggest(name, prog, key) ==
    CASE name = "BorrowedChord" -> BorrowedChordSuggest(prog, key)
      [] name = "ChromaticApproach" -> ChromaticApproachSuggest(prog, key)
      [] name = "Neapolitan" -> NeapolitanSuggest(prog, key)
      [] name = "SubV7" -> SubV7Suggest(prog, key)
      [] name = "Suspend" -> SuspendSuggest(prog, key)
      [] name = "TSDMovement" -> TSDMovementSuggest(prog, key)

\* the loop over active_strategies
RECURSIVE RunStrategies(_, _, _, _)
RunStrategies(st, names, prog, key) ==
    IF names = <<>> THEN st
    ELSE RunStrategies(StrategyRound(st, Head(names), StrategySuggest(Head(names), prog, key)),
                       Tail(names), prog, key)

\* ChordSuggestionEngine.get_suggestions
GetSuggestions(prog, key, filter, maxSuggestions) ==
    FinishSuggestions(RunStrategies([all |-> <<>>, raised |-> FALSE],
                                    ActiveStrategies(filter), prog, key).all,
                      maxSuggestions)

\* ChordSuggestionEngine.get_suggestions_for_position:
\* abs(suggestion.position - position) < 0.1
GetSuggestionsForPosition(prog, position, key, filter) ==
    SelectSeq(GetSuggestions(prog, key, filter, DefaultMaxSuggestions),
              LAMBDA sg : 10 * Abs(sg.position - FloatPos(position)) < Half)

(***************************************************************************)
(* The reharmonization beam search (examples/chord_jazzer_demo.py)         *)
(***************************************************************************)
\* _calculate_voice_leading_quality of the demo
DemoVoiceLeadingOf(pc1, pc2, rootMotionSemitones) ==
    Times(IF Min(Cardinality(pc1), Cardinality(pc2)) > 0
          THEN CommonToneRatio(pc1, pc2) ELSE Frac(1, 2), 3, 5)
    + Times(One - Frac(Min(rootMotionSemitones, 12 - rootMotionSemitones), 6), 2, 5)

DemoVoiceLeadingQuality(chord1, chord2) ==
    DemoVoiceLeadingOf(PitchClasses(chord1), PitchClasses(chord2),
                       Abs(IntervalFromNotes(chord1.root, chord2.root).simple))

\* score_functional_transition
ScoreFunctionalTransitionMutNoStatic(func1, func2) ==
    IF func1 = "subdominant" /\ func2 = "dominant" THEN One
    ELSE IF func1 = "dominant" /\ func2 = "tonic" THEN One
    ELSE IF func1 = "tonic" /\ func2 \in {"subdominant", "dominant"} THEN Frac(7, 10)
    ELSE IF func1 = "dominant" /\ func2 = "subdominant" THEN Frac(1, 10)
    ELSE Frac(3, 10)

ScoreFunctionalTransition(func1, func2) ==
    IF func1 = "subdominant" /\ func2 = "dominant" THEN One
    ELSE IF func1 = "dominant" /\ func2 = "tonic" THEN One
    ELSE IF func1 = "tonic" /\ func2 \in {"subdominant", "dominant"} THEN Frac(7, 10)
    ELSE IF func1 = "dominant" /\ func2 = "subdominant" THEN Frac(1, 10)
    ELSE IF func1 = "tonic" /\ func2 = "tonic" THEN Frac(1, 2)
    ELSE Frac(3, 10)

\* a melody note event
NoteEvent(startTime, endTime, midiNote) ==
    [start_time |-> startTime, end_time |-> endTime, midi_note |-> midiNote]

\* sum(progression.durations[:i])
RECURSIVE SumFirst(_, _)
SumFirst(durations, i) == IF i = 0 THEN 0 ELSE SumFirst(durations, i - 1) + durations[i]

\* get_melody_notes_for_chord: the events during the chord, and their Notes
MelodyEventsForChord(chordStartTime, chordDuration, melody) ==
    SelectSeq(melody, LAMBDA ev : /\ ev.start_time < chordStartTime + chordDuration
                                  /\ ev.end_time > chordStartTime)

MelodyNotesRaise(events) == \E k \in 1..Len(events) : IsErr(NoteFromMidi(events[k].midi_note))

MelodyNotes(events) == [k \in 1..Len(events) |-> NoteFromMidi(events[k].midi_note)]

\* calculate_melodic_clash_penalty raises with chord.notes and with
\* Note(c_note_pc, m_note.octave)
ClashPenaltyRaise(ch, melodyNotes) ==
    \/ ChordNotesRaise(ch)
    \/ \E k \in 1..Len(melodyNotes) : \E pc \in PitchClasses(ch) :
          IsErr(NoteFromName(pc, melodyNotes[k].octave))

\* calculate_melodic_clash_penalty
RECURSIVE ClashCount(_, _, _)
ClashCount(pcs, melodyNotes, k) ==
    IF k > Len(melodyNotes) THEN 0
    ELSE Cardinality({pc \in pcs :
            Abs(melodyNotes[k].midi - NoteFromName(pc, melodyNotes[k].octave).midi) % 12 = 1})
         + ClashCount(pcs, melodyNotes, k + 1)

MelodicClashPenalty(ch, melodyNotes) == 5 * One * ClashCount(PitchClasses(ch), melodyNotes, 1)

\* an entry of the beam: (score, chord_sequence, last_strategy_used)
BeamEntry(score, sequence, last) == [score |-> score, sequence |-> sequence, last |-> last]
StrategySource(name) == [name |-> name]

\* the candidate for the original chord
OriginalCandidate(ch, position) ==
    [ChordSuggestion(ch, One, FloatPos(position), One) EXCEPT !.strategy_source = "Original"]

\* the scoring of one (beam entry, candidate) pair raises
PairRaise(entry, suggestion, key, melodyNotes) ==
    \/ /\ entry.sequence # <<>>
       /\ LET prev == entry.sequence[Len(entry.sequence)]
          IN  \/ VoiceLeadingRaise(prev, suggestion.chord)
              \/ AnalyzeChordRaise(key, prev)
              \/ AnalyzeChordRaise(key, suggestion.chord)
    \/ ClashPenaltyRaise(suggestion.chord, melodyNotes)

\* the scoring of one (beam entry, candidate) pair: the new beam entry
ScorePair(entry, suggestion, key, melodyNotes) ==
    LET newChord == suggestion.chord
        hasPrev == entry.sequence # <<>>
        prev == entry.sequence[Len(entry.sequence)]
        voiceLeadingScore == IF hasPrev THEN DemoVoiceLeadingQuality(prev, newChord)
                             ELSE Frac(1, 2)
        functionalScore ==
            IF hasPrev
            THEN ScoreFunctionalTransition(GetHarmonicFunction(prev, key),
                                           GetHarmonicFunction(newChord, key))
            ELSE Frac(1, 2)
        repetitionPenalty ==
            IF /\ ~IsNone(entry.last)
               /\ entry.last.name = suggestion.strategy_source
               /\ suggestion.strategy_source # "Original"
            THEN Frac(1, 5) ELSE 0
    IN  BeamEntry(entry.score + Times(suggestion.confidence, 1, 5)
                  + Times(voiceLeadingScore, 3, 10) + Times(functionalScore, 1, 2)
                  - MelodicClashPenalty(newChord, melodyNotes) - repetitionPenalty,
                  Append(entry.sequence, newChord),
                  StrategySource(suggestion.strategy_source))

\* sorted(..., key=lambda x: x[0], reverse=True): stable
RECURSIVE SortedByScore(_)
SortedByScore(entries) ==
    IF entries = <<>> THEN <<>>
    ELSE LET n == Len(entries)
             front == SortedByScore(SubSeq(entries, 1, n - 1))
             e == entries[n]
             k == Cardinality({i \in 1..Len(front) : front[i].score >= e.score})
         IN  SubSeq(front, 1, k) \o <<e>> \o SubSeq(front, k + 1, Len(front))

\* heapq.nlargest(beam_width, all_candidates, key=lambda x: x[0])
NLargestMutKeepAll(n, entries) == SortedByScore(entries)

NLargest(n, entries) == SubSeq(SortedByScore(entries), 1, Min(Max(n, 0), Len(entries)))

\* max(beam, key=lambda x: x[0]): the first entry with the highest score
MaxByScore(beam) ==
    beam[CHOOSE i \in 1..Len(beam) :
            /\ \A j \in 1..Len(beam) : beam[j].score <= beam[i].score
            /\ \A j \in 1..(i - 1) : beam[j].score < beam[i].score]

\* ChordProgression(chords, key=key, durations=durations) as a value
BeamProgression(chords, key, durations) ==
    IF chords = <<>> THEN ValueError
    ELSE IF Len(durations) # Len(chords) THEN ValueError
    ELSE [chords |-> chords, key |-> key, durations |-> durations]

\* the candidates at a position: the original chord, then the suggestions
BeamCandidates(prog, position, key, filter) ==
    <<OriginalCandidate(ChordAt(prog, position), position)>>
    \o GetSuggestionsForPosition(prog, position, key, filter)

\* all_candidates: every beam entry with every candidate, in the order of the loops
AllCandidates(beam, candidates, key, melodyNotes) ==
    Flatten([b \in 1..Len(beam) |->
                [c \in 1..Len(candidates) |->
                    ScorePair(beam[b], candidates[c], key, melodyNotes)]],
            1, Len(beam))

\* the scoring loops of one position, given the melody notes and the
\* candidates: they raise, or give the new beam
ScoreCandidates(beam, candidates, key, melodyNotes, width) ==
    IF \E b \in 1..Len(beam) : \E c \in 1..Len(candidates) :
          PairRaise(beam[b], candidates[c], key, melodyNotes)
    THEN Raised
    ELSE [beam |-> NLargest(width, AllCandidates(beam, candidates, key, melodyNotes))]

\* one round of the loop over the positions: it raises, or gives the new beam
PositionOutcome(prog, position, key, melody, filter, width, beam) ==
    LET events == MelodyEventsForChord(SumFirst(prog.durations, position),
                                       prog.durations[position + 1], melody)
    IN  IF MelodyNotesRaise(events) THEN Raised
        ELSE ScoreCandidates(beam, BeamCandidates(prog, position, key, filter), key,
                             MelodyNotes(events), width)

\* the inputs of the model
MaxBeamLen == 3
MaxBeamWidth == 2
BeamChords == {StratChord("C", "major"), StratChord("G", "dominant7"), StratHighChord}
BeamKeys == {StratKeyC}
BeamMelodies == {<<>>, <<NoteEvent(0, 1, 61)>>, <<NoteEvent(1, 2, 5)>>}
BeamFilters == {None, FilterList(<<"SubV7", "BorrowedChord", "ChromaticApproach", "Suspend">>)}
BeamWidths == 0..MaxBeamWidth
BeamProgressions ==
    {BeamProgression(chords, None, [i \in 1..Len(chords) |-> 1]) :
        chords \in UNION {[1..n -> BeamChords] : n \in 1..MaxBeamLen}}

InitBeam == ProgIdle /\ NoteIdle /\ RtIdle /\ ModeIdle /\ EngIdle /\ StratIdle /\ BeamIdle /\ CallIdle

\* find_best_progression_sequence(progression, engine, key, melody,
\* strategy_filter, beam_width) up to the loop
CallFindBest ==
    /\ bmPc = "idle"
    /\ bmProg' \in BeamProgressions
    /\ bmKey' \in BeamKeys
    /\ bmMelody' \in BeamMelodies
    /\ bmFilter' \in BeamFilters
    /\ bmWidth' \in BeamWidths
    /\ bmPc' = "loop"
    /\ bmI' = 0
    /\ bmBeam' = <<BeamEntry(0, <<>>, None)>>
    /\ UNCHANGED bmResult
    /\ UNCHANGED notBeam

\* what a round of the loop leaves: the exception that ends the call, or the
\* new beam and the next position
AfterPosition(out) ==
    IF IsErr(out)
    THEN /\ bmPc' = "raised"
         /\ bmResult' = Raised
         /\ UNCHANGED <<bmI, bmBeam>>
    ELSE /\ bmBeam' = out.beam
         /\ bmI' = bmI + 1
         /\ UNCHANGED <<bmPc, bmResult>>

\* one round of the loop, for the chord at position bmI: the new beam, or
\* the exception that ends the call
BeamPosition ==
    /\ bmPc = "loop"
    /\ bmI < Len(bmProg.chords)
    /\ AfterPosition(PositionOutcome(bmProg, bmI, bmKey, bmMelody, bmFilter, bmWidth, bmBeam))
    /\ UNCHANGED <<bmProg, bmKey, bmMelody, bmFilter, bmWidth>>
    /\ UNCHANGED notBeam

\* after the loop: the input progression when the beam is empty, else the
\* progression of the best sequence
BeamReturn ==
    /\ bmPc = "loop"
    /\ bmI = Len(bmProg.chords)
    /\ LET result == IF bmBeam = <<>> THEN bmProg
                     ELSE BeamProgression(MaxByScore(bmBeam).sequence, bmKey,
                                          bmProg.durations)
       IN  /\ bmResult' = result
           /\ bmPc' = IF IsErr(result) THEN "raised" ELSE "returned"
    /\ UNCHANGED <<bmProg, bmKey, bmMelody, bmFilter, bmWidth, bmI, bmBeam>>
    /\ UNCHANGED notBeam

NextBeam == CallFindBest \/ BeamPosition \/ BeamReturn
SpecBeam == InitBeam /\ [][NextBeam]_vars

\* C10: with a beam width w >= 1, the beam holds at most w sequences after
\* every position, each sequence kept after position i has i + 1 chords, and
\* the progression returned has as many chords as the input
C10_BeamBounded ==
    bmWidth >= 1 =>
        /\ bmPc \in {"loop", "returned"} /\ bmI >= 1 =>
              /\ Len(bmBeam) <= bmWidth
              /\ \A b \in 1..Len(bmBeam) : Len(bmBeam[b].sequence) = bmI
        /\ bmPc = "returned" => Len(bmResult.chords) = Len(bmProg.chords)

\* a call with a beam width of 2 or more returned a progression that differs
\* from its input, with a full beam after the last of several positions
C10_Witness ==
    /\ bmPc = "returned"
    /\ bmWidth >= 2
    /\ Len(bmProg.chords) >= 2
    /\ Len(bmBeam) = bmWidth
    /\ bmResult.chords # bmProg.chords

\* the call's inputs are the ones C11 speaks of: every chord of the progression
\* has its notes in the MIDI range, and every melody event has a MIDI pitch
\* in [0,127]
BeamInputsValid ==
    /\ bmPc # "idle"
    /\ \A i \in 1..Len(bmProg.chords) : ~ChordNotesRaise(bmProg.chords[i])
    /\ \A k \in 1..Len(bmMelody) : bmMelody[k].midi_note \in 0..MidiMax

\* C11: with such inputs find_best_progression_sequence does not raise, and
\* with an empty beam after the loop it returns the input progression
C11_NeverRaises ==
    BeamInputsValid =>
        /\ bmPc # "raised"
        /\ (bmPc = "returned" /\ bmBeam = <<>>) => bmResult = bmProg

\* what the active strategies suggest for a position, after
\* _remove_duplicates
StrategySuggestionsAt(prog, position, key, filter) ==
    SelectSeq(RemoveDuplicates(RunStrategies([all |-> <<>>, raised |-> FALSE],
                                             ActiveStrategies(filter), prog, key).all),
              LAMBDA sg : 10 * Abs(sg.position - FloatPos(position)) < Half)

\* C12: at every position of the beam search the candidates are the original
\* chord and every suggestion the allowed strategies make for the position
\* after de-duplication, and nothing else
C12_CandidatesComplete ==
    (bmPc = "loop" /\ bmI < Len(bmProg.chords)) =>
        SeqToSet(BeamCandidates(bmProg, bmI, bmKey, bmFilter))
        = {OriginalCandidate(ChordAt(bmProg, bmI), bmI)}
          \cup SeqToSet(StrategySuggestionsAt(bmProg, bmI, bmKey, bmFilter))

(***************************************************************************)
(* ChordDetector (analysis/chord_detector.py)                              *)
(* Scores are exact rationals in units of 1/One; with at most four         *)
(* distinct pitch classes the float comparisons of the code order the      *)
(* scores as the rationals do.                                             *)
(***************************************************************************)
\* CHORD_TEMPLATES.items(), in the order of declaration
CHORD_TEMPLATES ==
    <<[quality |-> "major", template |-> <<0, 4, 7>>],
      [quality |-> "minor", template |-> <<0, 3, 7>>],
      [quality |-> "diminished", template |-> <<0, 3, 6>>],
      [quality |-> "augmented", template |-> <<0, 4, 8>>],
      [quality |-> "sus2", template |-> <<0, 2, 7>>],
      [quality |-> "sus4", template |-> <<0, 5, 7>>],
      [quality |-> "major7", template |-> <<0, 4, 7, 11>>],
      [quality |-> "minor7", template |-> <<0, 3, 7, 10>>],
      [quality |-> "dominant7", template |-> <<0, 4, 7, 10>>],
      [quality |-> "diminished7", template |-> <<0, 3, 6, 9>>],
      [quality |-> "half_diminished7", template |-> <<0, 3, 6, 10>>],
      [quality |-> "minor_major7", template |-> <<0, 3, 7, 11>>],
      [quality |-> "augmented7", template |-> <<0, 4, 8, 10>>],
      [quality |-> "major9", template |-> <<0, 4, 7, 11, 2>>],
      [quality |-> "minor9", template |-> <<0, 3, 7, 10, 2>>],
      [quality |-> "dominant9", template |-> <<0, 4, 7, 10, 2>>],
      [quality |-> "major11", template |-> <<0, 4, 7, 11, 2, 5>>],
      [quality |-> "minor11", template |-> <<0, 3, 7, 10, 2, 5>>],
      [quality |-> "dominant11", template |-> <<0, 4, 7, 10, 2, 5>>],
      [quality |-> "major13", template |-> <<0, 4, 7, 11, 2, 5, 9>>],
      [quality |-> "minor13", template |-> <<0, 3, 7, 10, 2, 5, 9>>],
      [quality |-> "dominant13", template |-> <<0, 4, 7, 10, 2, 5, 9>>],
      [quality |-> "dominant7b5", template |-> <<0, 4, 6, 10>>],
      [quality |-> "dominant7#5", template |-> <<0, 4, 8, 10>>],
      [quality |-> "dominant7b9", template |-> <<0, 4, 7, 10, 1>>],
      [quality |-> "dominant7#9", template |-> <<0, 4, 7, 10, 3>>],
      [quality |-> "dominant7#11", template |-> <<0, 4, 7, 10, 6>>],
      [quality |-> "dominant7b13", template |-> <<0, 4, 7, 10, 8>>]>>

\* ChordDetector(): min_notes
DefaultMinNotes == 2

\* sorted(set(...)) of integers
SortedSeq(S) ==
    [i \in 1..Cardinality(S) |-> CHOOSE x \in S : Cardinality({y \in S : y < x}) = i - 1]

\* min(notes, key=lambda n: n.midi_number).midi_number
LowestMidi(notes) ==
    CHOOSE m \in {notes[i].midi : i \in 1..Len(notes)} :
        \A i \in 1..Len(notes) : m <= notes[i].midi

\* the bonuses of _calculate_chord_score: root in the bass, third, fifth
ScoreBonus(notesSet, templateSet, rootInBass) ==
    (IF rootInBass THEN Frac(1, 5) ELSE 0)
    + (IF (3 \in templateSet \/ 4 \in templateSet) /\ (3 \in notesSet \/ 4 \in notesSet)
       THEN Frac(1, 10) ELSE 0)
    + (IF 7 \in templateSet /\ 7 \in notesSet THEN Frac(1, 10) ELSE 0)

\* _calculate_chord_score, on the sets of the normalized semitones and of the
\* template
ScoreOfSets(notesSet, templateSet, rootInBass) ==
    IF Cardinality(templateSet) = 0 \/ Cardinality(notesSet) = 0 THEN 0
    ELSE Max(0, Frac(Cardinality(templateSet \cap notesSet), Cardinality(templateSet))
                - Frac(Cardinality(notesSet \ templateSet), 2 * Cardinality(notesSet))
                + ScoreBonus(notesSet, templateSet, rootInBass))

\* _calculate_chord_score
CalculateChordScore(normalized, template, notes, rootSemitone) ==
    ScoreOfSets(SeqToSet(normalized), SeqToSet(template),
                notes # <<>> /\ LowestMidi(notes) % 12 = rootSemitone)

\* sorted(set((s - root_semitone) % 12 for s in semitones))
Normalized(semitones, rootSemitone) ==
    SortedSeq({(semitones[i] - rootSemitone) % 12 : i \in 1..Len(semitones)})

\* the chord built for an improving score: a slash chord when the bass note
\* is given and is spelled differently from the root
MatchChord(rootNote, quality, bassNote) ==
    Chord(rootNote, quality,
          IF ~IsNone(bassNote) /\ bassNote.pc # rootNote.pc THEN bassNote ELSE None)

\* what the body of the loops does with a strictly improving score:
\* best_score is set, and best_chord too unless Chord raises ValueError
TakeImprovement(st, score, ch) ==
    [best_score |-> score, best_chord |-> IF IsErr(ch) THEN st.best_chord ELSE ch]

\* the score of template t for a root
ScoreAt(t, normalized, rootSemitone, notes) ==
    CalculateChordScore(normalized, CHORD_TEMPLATES[t].template, notes, rootSemitone)

\* the loop over CHORD_TEMPLATES for one root, from template t on
RECURSIVE TemplateLoop(_, _, _, _, _, _)
TemplateLoop(st, t, normalized, rootSemitone, notes, bassNote) ==
    IF t > Len(CHORD_TEMPLATES) THEN st
    ELSE IF ScoreAt(t, normalized, rootSemitone, notes) > st.best_score
    THEN TemplateLoop(TakeImprovement(st, ScoreAt(t, normalized, rootSemitone, notes),
                                      MatchChord(NoteFromMidi(rootSemitone),
                                                 CHORD_TEMPLATES[t].quality, bassNote)),
                      t + 1, normalized, rootSemitone, notes, bassNote)
    ELSE TemplateLoop(st, t + 1, normalized, rootSemitone, notes, bassNote)

\* the loop over the roots of _find_best_chord_match, from root r on
RECURSIVE MatchLoop(_, _, _, _, _)
MatchLoop(st, r, semitones, notes, bassNote) ==
    IF r > Len(semitones) THEN st
    ELSE MatchLoop(TemplateLoop(st, 1, Normalized(semitones, semitones[r]), semitones[r],
                                notes, bassNote),
                   r + 1, semitones, notes, bassNote)

\* the threshold on the best score
AcceptBest(st) == IF st.best_score > Frac(1, 2) THEN st.best_chord ELSE None

\* _find_best_chord_match
FindBestChordMatch(semitones, notes, bassNote) ==
    AcceptBest(MatchLoop([best_score |-> -One, best_chord |-> None], 1,
                         semitones, notes, bassNote))

\* set(note.pitch_class for note in notes)
NotePitchClasses(notes) == {notes[i].pc : i \in 1..Len(notes)}

\* the semitones of the pitch classes: Note(pc, 4).midi_number % 12, sorted
PitchClassSemitones(pitchClasses) ==
    SortedSeq({NoteFromName(pc, 4).midi % 12 : pc \in pitchClasses})

\* ChordDetector.detect_chord_from_notes
DetectChordFromNotes(notes, bassNote, minNotes) ==
    IF Len(notes) < minNotes THEN None
    ELSE IF Cardinality(NotePitchClasses(notes)) < minNotes THEN None
    ELSE FindBestChordMatch(PitchClassSemitones(NotePitchClasses(notes)), notes, bassNote)

\* the inputs of the model: notes of four pitch classes, one of them in two
\* spellings, and the bass notes a caller may name
MaxDetNotes == 3
DetNotes ==
    {NoteFromName("C", 4), NoteFromName("C#", 4), NoteFromName("Db", 3),
     NoteFromName("G", 4), NoteFromName("B", 3)}
DetBasses == {None, NoteFromName("Db", 3), NoteFromName("G", 4)}
DetNoteLists == UNION {[1..n -> DetNotes] : n \in 0..MaxDetNotes}

InitDet ==
    /\ ProgIdle /\ NoteIdle /\ RtIdle /\ ModeIdle /\ EngIdle /\ StratIdle /\ BeamIdle
    /\ CallIdle

\* ChordDetector().detect_chord_from_notes(notes, bass_note)
CallDetectChord ==
    /\ callOp = "none"
    /\ \E notes \in DetNoteLists, bassNote \in DetBasses :
          /\ callArgs' = [notes |-> notes, bass_note |-> bassNote]
          /\ callOut' = DetectChordFromNotes(notes, bassNote, DefaultMinNotes)
    /\ callOp' = "detect_chord_from_notes"
    /\ UNCHANGED notCall

NextDet == CallDetectChord
SpecDet == InitDet /\ [][NextDet]_vars

\* the call of the detector got past the checks on the number of notes
DetScored ==
    /\ callOp = "detect_chord_from_notes"
    /\ Cardinality(NotePitchClasses(callArgs.notes)) >= DefaultMinNotes

\* the score of the pair (root r, template t) for the notes of the call
DetPairScore(r, t) ==
    CalculateChordScore(
        Normalized(PitchClassSemitones(NotePitchClasses(callArgs.notes)), r),
        CHORD_TEMPLATES[t].template, callArgs.notes, r)

\* the candidate roots of the call, and its maximum-scoring pairs
DetRoots == SeqToSet(PitchClassSemitones(NotePitchClasses(callArgs.notes)))
DetPairs == DetRoots \X (1..Len(CHORD_TEMPLATES))
DetMaxPairs ==
    {p \in DetPairs : \A q \in DetPairs : DetPairScore(q[1], q[2]) <= DetPairScore(p[1], p[2])}

\* the chord returned is the chord of the pair p
IsChordOfPair(ch, p) ==
    /\ ~IsNone(ch)
    /\ ch.root.midi % 12 = p[1]
    /\ ch.quality = CHORD_TEMPLATES[p[2]].quality

\* C13: the detector returns the chord of a maximum-scoring (root, quality)
\* pair when the maximum score is above 0.5, and no chord otherwise
C13_ArgmaxOnly ==
    DetScored =>
        IF \E p \in DetMaxPairs : DetPairScore(p[1], p[2]) > Frac(1, 2)
        THEN \E p \in DetMaxPairs : IsChordOfPair(callOut, p)
        ELSE IsNone(callOut)

\* the first of the maximum-scoring pairs in the order of the loops: roots
\* ascending, and for one root the templates in declaration order
DetFirstMaxPair ==
    CHOOSE p \in DetMaxPairs :
        \A q \in DetMaxPairs : p[1] < q[1] \/ (p[1] = q[1] /\ p[2] <= q[2])

\* the notes of the call listed in another order
Reordered(notes, f) == [i \in 1..Len(notes) |-> notes[f[i]]]

\* the maximum score of the call is shared by several pairs
DetTied == DetScored /\ Cardinality(DetMaxPairs) > 1

\* C14: when several pairs share the maximum score the chord of the first of
\* them in loop order is returned, and the chord returned does not depend on
\* the order in which the notes are listed
C14_FirstPairOrderFree ==
    /\ (DetTied /\ DetPairScore(DetFirstMaxPair[1], DetFirstMaxPair[2]) > Frac(1, 2))
           => IsChordOfPair(callOut, DetFirstMaxPair)
    /\ callOp = "detect_chord_from_notes" =>
           \A f \in Permutations(1..Len(callArgs.notes)) :
               DetectChordFromNotes(Reordered(callArgs.notes, f), callArgs.bass_note,
                                    DefaultMinNotes) = callOut

\* the second half of C14 alone
C14_OrderFree ==
    callOp = "detect_chord_from_notes" =>
        \A f \in Permutations(1..Len(callArgs.notes)) :
            DetectChordFromNotes(Reordered(callArgs.notes, f), callArgs.bass_note,
                                 DefaultMinNotes) = callOut

\* the distinct pitch classes among the notes of the call, whatever their
\* octave and spelling
DetDistinctClasses == {callArgs.notes[i].midi % 12 : i \in 1..Len(callArgs.notes)}

\* C15: a call with fewer than min_notes distinct pitch classes (one note, or
\* one pitch class in several octaves or spellings) returns no chord
C15_TooFewPitchClasses ==
    (callOp = "detect_chord_from_notes" /\ Cardinality(DetDistinctClasses) < DefaultMinNotes)
        => IsNone(callOut)

(***************************************************************************)
(* analysis/key_detector.py: KeyDetector.detect_key_from_notes with the    *)
(* standard profiles and no weights.  The Krumhansl-Schmuckler profiles    *)
(* are kept in hundredths; a correlation is a fixed-point number in units  *)
(* of 1/CorrOne.  The Pearson correlation does not change when either      *)
(* vector is multiplied by a positive number, so the two normalisations of *)
(* the code (histogram / total, profile / sum) drop out of it.             *)
(***************************************************************************)
MAJOR_PROFILE == <<635, 223, 348, 233, 438, 409, 252, 519, 239, 366, 229, 288>>
MINOR_PROFILE == <<633, 268, 352, 538, 260, 353, 254, 475, 398, 269, 334, 317>>
CHROMATIC_NOTES == <<"C", "C#", "D", "D#", "E", "F", "F#", "G", "G#", "A", "A#", "B">>
CorrOne == 100000
NaN == [nan |-> TRUE, value |-> 0]

\* the sum of a sequence of numbers
RECURSIVE SumOfSeq(_)
SumOfSeq(xs) == IF xs = <<>> THEN 0 ELSE xs[1] + SumOfSeq(Tail(xs))

\* the largest r with r * r <= x, for lo * lo <= x < (hi + 1) * (hi + 1)
RECURSIVE SqrtBetween(_, _, _)
SqrtBetween(x, lo, hi) ==
    IF lo = hi THEN lo
    ELSE IF ((lo + hi + 1) \div 2) * ((lo + hi + 1) \div 2) <= x
         THEN SqrtBetween(x, (lo + hi + 1) \div 2, hi)
         ELSE SqrtBetween(x, lo, ((lo + hi + 1) \div 2) - 1)
Sqrt(x) == SqrtBetween(x, 0, 46340)

\* CHROMATIC_NOTES.index(note.pitch_class) raises ValueError for a pitch
\* class that is not in the list
HistogramRaises(notes) ==
    \E i \in 1..Len(notes) : notes[i].pc \notin SeqToSet(CHROMATIC_NOTES)

\* _create_pitch_class_histogram without weights: the count of every entry
\* of CHROMATIC_NOTES among the notes
CreatePitchClassHistogram(notes) ==
    [k \in 1..12 |-> Cardinality({i \in 1..Len(notes) : notes[i].pc = CHROMATIC_NOTES[k]})]

\* np.roll(profile, -i)
Rolled(profile, i) == [k \in 1..12 |-> profile[((k - 1 + i) % 12) + 1]]

\* 12 times the sum of products minus the product of the sums: the
\* covariance of two vectors of length 12, times 144
Covariance(x, y) ==
    12 * SumOfSeq([k \in 1..12 |-> x[k] * y[k]]) - SumOfSeq(x) * SumOfSeq(y)

\* np.corrcoef(histogram, profile)[0, 1]: NaN for a constant histogram
Correlation(histogram, profile) ==
    IF Covariance(histogram, histogram) = 0 THEN NaN
    ELSE [nan |-> FALSE,
          value |-> (Covariance(histogram, profile) * CorrOne)
                        \div Sqrt(Covariance(histogram, histogram)
                                  * Covariance(profile, profile))]

\* one turn of a loop of _find_best_key_match
KeyStep(st, correlation, tonicName, mode) ==
    IF ~correlation.nan /\ correlation.value > st.best_correlation
    THEN [best_correlation |-> correlation.value, best_key |-> Key(NoteFromName(tonicName, 4), mode)]
    ELSE st

\* the loop over CHROMATIC_NOTES for one profile, from tonic i on
RECURSIVE KeyLoop(_, _, _, _, _)
KeyLoop(st, i, histogram, profile, mode) ==
    IF i > 12 THEN st
    ELSE KeyLoop(KeyStep(st, Correlation(histogram, Rolled(profile, i - 1)),
                         CHROMATIC_NOTES[i], mode),
                 i + 1, histogram, profile, mode)

\* the end of _find_best_key_match: the correlation becomes a confidence
KeyAndConfidence(st) ==
    [key |-> st.best_key, confidence |-> Max(0, (st.best_correlation + CorrOne) \div 2)]

\* _find_best_key_match: the major keys are tried first, then the minor keys
FindBestKeyMatch(histogram) ==
    KeyAndConfidence(
        KeyLoop(KeyLoop([best_correlation |-> -CorrOne,
                         best_key |-> Key(NoteFromName("C", 4), "major")],
                        1, histogram, MAJOR_PROFILE, "major"),
                1, histogram, MINOR_PROFILE, "minor"))

\* detect_key_from_notes
DetectKeyFromNotes(notes) ==
    IF notes = <<>> THEN [key |-> Key(NoteFromName("C", 4), "major"), confidence |-> 0]
    ELSE IF HistogramRaises(notes) THEN ValueError
    ELSE FindBestKeyMatch(CreatePitchClassHistogram(notes))

(***************************************************************************)
(* The key detector called once on a list of notes in sharp and flat       *)
(* spellings.                                                              *)
(***************************************************************************)
MaxKeyNotes == 3
KeyNotes ==
    {NoteFromName("C", 4), NoteFromName("E", 4), NoteFromName("G", 4),
     NoteFromName("F#", 4), NoteFromName("Bb", 3)}
KeyNoteLists == UNION {[1..n -> KeyNotes] : n \in 0..MaxKeyNotes}

InitKeyDet ==
    /\ ProgIdle /\ NoteIdle /\ RtIdle /\ ModeIdle /\ EngIdle /\ StratIdle
    /\ BeamIdle /\ CallIdle

\* KeyDetector().detect_key_from_notes(notes)
CallDetectKey ==
    /\ callOp = "none"
    /\ \E notes \in KeyNoteLists :
           /\ callArgs' = [notes |-> notes]
           /\ callOut' = DetectKeyFromNotes(notes)
    /\ callOp' = "detect_key_from_notes"
    /\ UNCHANGED notCall

NextKeyDet == CallDetectKey
SpecKeyDet == InitKeyDet /\ [][NextKeyDet]_vars

\* C16: detect_key_from_notes raises for no list of notes, sharp or flat,
\* and the empty list gives C major with confidence 0
C16_KeyNeverRaises ==
    callOp = "detect_key_from_notes" =>
        /\ ~IsErr(callOut)
        /\ callArgs.notes = <<>> =>
               callOut = [key |-> Key(NoteFromName("C", 4), "major"), confidence |-> 0]

(***************************************************************************)
(* Key.analyze_chord and the strategies' _get_harmonic_function called     *)
(* once, for keys on sharp and flat tonics and chord roots in both         *)
(* spellings.                                                              *)
(***************************************************************************)
AnalyzeTonics == {"C", "G", "F#", "Bb", "Eb"}
AnalyzeRoots == {"C", "C#", "D#", "Eb", "F", "F#", "G", "A#", "Bb"}
AnalyzeKeys == {Key(NoteFromName(t, 4), m) : t \in AnalyzeTonics, m \in {"major", "minor"}}
AnalyzeChords ==
    {Chord(NoteFromName(r, 4), q, None) : r \in AnalyzeRoots, q \in {"major", "minor"}}

InitAnalyze ==
    /\ ProgIdle /\ NoteIdle /\ RtIdle /\ ModeIdle /\ EngIdle /\ StratIdle
    /\ BeamIdle /\ CallIdle

\* key.analyze_chord(chord)
CallAnalyzeChord ==
    /\ callOp = "none"
    /\ \E key \in AnalyzeKeys, ch \in AnalyzeChords :
           /\ callArgs' = [key |-> key, chord |-> ch]
           /\ callOut' = AnalyzeChord(key, ch)
    /\ callOp' = "analyze_chord"
    /\ UNCHANGED notCall

\* strategy._get_harmonic_function(chord, key): analysis.get('function',
\* 'unknown') on a dictionary that always has the key 'function'
CallGetHarmonicFunction ==
    /\ callOp = "none"
    /\ \E key \in AnalyzeKeys, ch \in AnalyzeChords :
           /\ callArgs' = [key |-> key, chord |-> ch]
           /\ callOut' = IF AnalyzeChordRaise(key, ch) THEN ValueError
                         ELSE [function |-> GetHarmonicFunction(ch, key)]
    /\ callOp' = "_get_harmonic_function"
    /\ UNCHANGED notCall

NextAnalyze == CallAnalyzeChord \/ CallGetHarmonicFunction
SpecAnalyze == InitAnalyze /\ [][NextAnalyze]_vars

\* the call is one of the two that report a harmonic function
FunctionReported == callOp \in {"analyze_chord", "_get_harmonic_function"} /\ ~IsErr(callOut)

\* the semitone classes of the notes of the scale of the key of the call
CallScaleClasses ==
    {ScaleNotes(callArgs.key.scale)[k].midi % 12 : k \in 1..Len(ScaleNotes(callArgs.key.scale))}

\* C17: the function reported by analyze_chord and by the strategies' helper
\* is tonic, subdominant, dominant or unknown, and it is unknown for a chord
\* whose root is not a note of the key's scale
C17_FunctionNames ==
    FunctionReported =>
        /\ callOut.function \in {"tonic", "subdominant", "dominant", "unknown"}
        /\ callArgs.chord.root.midi % 12 \notin CallScaleClasses
               => callOut.function = "unknown"

\* C18: a chord whose root has the pitch class of the k-th note of the key's
\* scale, however it is spelled, is analysed as degree k with the function of
\* the degree table; the tonic triad of the key is degree 1, tonic
C18_DegreeOfRoot ==
    (callOp = "analyze_chord" /\ ~IsErr(callOut)) =>
        \A k \in 1..Len(ScaleNotes(callArgs.key.scale)) :
            ScaleNotes(callArgs.key.scale)[k].midi % 12 = callArgs.chord.root.midi % 12
                => /\ callOut.degree = k
                   /\ callOut.function = DegreeFunction(k)

(***************************************************************************)
(* core/interval.py: Interval.from_name.  A name is a sequence of its      *)
(* characters.                                                             *)
(***************************************************************************)
Digits == <<"0", "1", "2", "3", "4", "5", "6", "7", "8", "9">>

\* str.upper on one character, for the letters interval names are made of
UpperChar(c) ==
    CASE c = "a" -> "A" [] c = "d" -> "D" [] c = "m" -> "M" [] c = "p" -> "P"
      [] c = "x" -> "X" [] OTHER -> c
Upper(chars) == [i \in 1..Len(chars) |-> UpperChar(chars[i])]

\* str.strip for blanks
RECURSIVE Strip(_)
Strip(chars) ==
    IF chars = <<>> THEN chars
    ELSE IF Head(chars) = " " THEN Strip(Tail(chars))
    ELSE IF chars[Len(chars)] = " " THEN Strip(SubSeq(chars, 1, Len(chars) - 1))
    ELSE chars

\* int(text) for a text of digits: ValueError for the empty text and for
\* any other character
IsNumber(chars) == chars # <<>> /\ \A i \in 1..Len(chars) : chars[i] \in SeqToSet(Digits)
RECURSIVE ParseInt(_)
ParseInt(chars) ==
    IF chars = <<>> THEN 0
    ELSE ParseInt(SubSeq(chars, 1, Len(chars) - 1)) * 10
         + IndexOf(Digits, chars[Len(chars)]) - 1

\* base_semitones: the major or perfect interval of a simple number
BASE_SEMITONES == <<0, 2, 4, 5, 7, 9, 11, 12>>

\* the adjustment of from_name for the quality letter, applied to the
\* semitones of the number
AdjustForQuality(quality, simpleNumber, semitones) ==
    CASE quality = "M" -> Interval(semitones)
      [] quality = "m" ->
            IF simpleNumber \in {2, 3, 6, 7} THEN Interval(semitones - 1) ELSE ValueError
      [] quality = "P" ->
            IF simpleNumber \notin {1, 4, 5, 8} THEN ValueError ELSE Interval(semitones)
      [] quality = "d" ->
            IF simpleNumber \in {1, 4, 5, 8} THEN Interval(semitones - 1)
            ELSE Interval(semitones - 2)
      [] quality = "A" ->
            IF simpleNumber \in {1, 4, 5, 8} THEN Interval(semitones + 1)
            ELSE Interval(semitones + 2)
      [] OTHER -> ValueError

\* from_name once the number is parsed: octaves = (number - 1) // 7 and
\* simple_number = ((number - 1) % 7) + 1
FromQualityAndNumber(quality, number) ==
    AdjustForQuality(quality, ((number - 1) % 7) + 1,
                     BASE_SEMITONES[((number - 1) % 7) + 1] + ((number - 1) \div 7) * 12)

\* from_name on the stripped, upper-cased name
FromUpperName(name) ==
    IF Len(name) < 2 THEN ValueError
    ELSE IF ~IsNumber(Tail(name)) THEN ValueError
    ELSE FromQualityAndNumber(Head(name), ParseInt(Tail(name)))

\* Interval.from_name
IntervalFromName(name) == FromUpperName(Upper(Strip(name)))

(***************************************************************************)
(* Interval.from_name called once on a name made of a quality letter and a *)
(* number, with or without a leading blank.                                *)
(***************************************************************************)
NameQualities == {"P", "M", "m", "d", "A", "p", "a", "X"}
NameNumbers ==
    {<<>>, <<"0">>, <<"1">>, <<"2">>, <<"3">>, <<"4">>, <<"5">>, <<"6">>, <<"7">>, <<"8">>,
     <<"9">>, <<"1", "0">>, <<"1", "5">>, <<"3", "x">>}
IntervalNames ==
    {pad \o <<q>> \o n : pad \in {<<>>, <<" ">>}, q \in NameQualities, n \in NameNumbers}

InitInterval ==
    /\ ProgIdle /\ NoteIdle /\ RtIdle /\ ModeIdle /\ EngIdle /\ StratIdle
    /\ BeamIdle /\ CallIdle

\* Interval.from_name(name)
CallFromName ==
    /\ callOp = "none"
    /\ \E name \in IntervalNames :
           /\ callArgs' = [name |-> name]
           /\ callOut' = IntervalFromName(name)
    /\ callOp' = "from_name"
    /\ UNCHANGED notCall

NextInterval == CallFromName
SpecInterval == InitInterval /\ [][NextInterval]_vars

\* names of intervals with their semitone counts
NamedIntervals ==
    {<<<<"m", "3">>, 3>>, <<<<"M", "3">>, 4>>, <<<<"M", "7">>, 11>>, <<<<"P", "1">>, 0>>,
     <<<<"P", "5">>, 7>>, <<<<"P", "8">>, 12>>, <<<<"d", "5">>, 6>>, <<<<"A", "4">>, 6>>,
     <<<<"M", "9">>, 14>>}

\* C19: from_name tells minor m from major M: the listed names give the
\* listed semitones, and for the numbers 2, 3, 6, 7 the minor interval is one
\* semitone smaller than the major one
C19_FromNameTable ==
    callOp = "from_name" =>
        /\ \A e \in NamedIntervals :
               callArgs.name = e[1] => callOut = Interval(e[2])
        /\ \A d \in {"2", "3", "6", "7"} :
               callArgs.name = <<"m", d>> =>
                   callOut = Interval(IntervalSemitones(IntervalFromName(<<"M", d>>)) - 1)

(***************************************************************************)
(* Scale.from_mode called once, by one thread, and the properties of the   *)
(* Scale it returned read afterwards (core/scale.py).  The properties read *)
(* the class attribute SCALE_PATTERNS at the time they are read.           *)
(***************************************************************************)
MaxModeIndex == 6
UseTonics == {NoteFromName("C", 4), NoteFromName("D", 4)}

\* the dicts after  original_patterns = cls.SCALE_PATTERNS.copy()  and
\* cls.SCALE_PATTERNS[mode_name] = mode_pattern
DictsAfterStore(ds, cat, name, pattern) ==
    [Append(ds, ds[cat]) EXCEPT ![cat] = DictSet(@, name, pattern)]

\* the Scale built inside the try block, with the attributes set on it
ModeScale(patterns, tonic, name, parent, mode) ==
    IF IsErr(ScaleInit(patterns, name)) THEN ValueError
    ELSE [tonic |-> tonic, scale_type |-> name, parent_scale |-> parent, mode_number |-> mode]

\* Scale.pattern: self.SCALE_PATTERNS[self.scale_type]
PatternIn(patterns, sc) ==
    IF sc.scale_type \notin DOMAIN patterns THEN KeyError
    ELSE [value |-> patterns[sc.scale_type]]

\* Scale.notes: the tonic transposed by every interval of the pattern
NotesIn(patterns, sc) ==
    IF IsErr(PatternIn(patterns, sc)) THEN KeyError
    ELSE IF HasErr(TransposeAll(sc.tonic, patterns[sc.scale_type])) THEN ValueError
    ELSE [value |-> TransposeAll(sc.tonic, patterns[sc.scale_type])]

\* Scale.pitch_classes: the pitch classes of the notes
PitchClassesIn(patterns, sc) ==
    IF IsErr(NotesIn(patterns, sc)) THEN NotesIn(patterns, sc)
    ELSE [value |-> [i \in 1..Len(NotesIn(patterns, sc).value) |->
                        NotesIn(patterns, sc).value[i].pc]]

InitModeUse ==
    /\ ProgIdle /\ NoteIdle /\ RtIdle /\ ModeIdle /\ EngIdle /\ StratIdle
    /\ BeamIdle /\ CallIdle

\* scale = Scale.from_mode(tonic, mode, parent_scale), from entry to return
CallFromMode ==
    /\ callOp = "none"
    /\ \E tonic \in UseTonics, mode \in 0..MaxModeIndex, parent \in DOMAIN SCALE_PATTERNS :
           /\ callArgs' = [tonic |-> tonic, mode |-> mode, parent_scale |-> parent]
           /\ IF parent \notin DOMAIN dicts[catalog]
                  \/ mode >= Len(dicts[catalog][parent])
              THEN /\ callOut' = ValueError
                   /\ UNCHANGED <<dicts, catalog>>
              ELSE /\ dicts' = DictsAfterStore(dicts, catalog, ModeName(parent, mode),
                                              ModePattern(dicts[catalog][parent], mode))
                   /\ callOut' = ModeScale(dicts'[catalog], tonic, ModeName(parent, mode),
                                           parent, mode)
                   /\ catalog' = Len(dicts) + 1
    /\ callOp' = "from_mode"
    /\ UNCHANGED <<modeThreads, notModeCall>>

\* scale.pattern, scale.notes or scale.pitch_classes read on the Scale that
\* from_mode returned
ReadPattern ==
    /\ callOp = "from_mode" /\ ~IsErr(callOut)
    /\ callOp' = "pattern"
    /\ callOut' = PatternIn(dicts[catalog], callOut)
    /\ UNCHANGED <<callArgs, modeVars, notModeCall>>

ReadNotes ==
    /\ callOp = "from_mode" /\ ~IsErr(callOut)
    /\ callOp' = "notes"
    /\ callOut' = NotesIn(dicts[catalog], callOut)
    /\ UNCHANGED <<callArgs, modeVars, notModeCall>>

ReadPitchClasses ==
    /\ callOp = "from_mode" /\ ~IsErr(callOut)
    /\ callOp' = "pitch_classes"
    /\ callOut' = PitchClassesIn(dicts[catalog], callOut)
    /\ UNCHANGED <<callArgs, modeVars, notModeCall>>

NextModeUse == CallFromMode \/ ReadPattern \/ ReadNotes \/ ReadPitchClasses
SpecModeUse == InitModeUse /\ [][NextModeUse]_vars

\* C20: the Scale from_mode returned stays usable: its pattern is the parent
\* pattern rotated to the mode degree, and pattern, notes and pitch_classes
\* are read without error
C20_ModeScaleUsable ==
    /\ callOp \in {"pattern", "notes", "pitch_classes"} => ~IsErr(callOut)
    /\ callOp = "pattern" =>
           callOut = [value |-> ModePattern(SCALE_PATTERNS[callArgs.parent_scale],
                                            callArgs.mode)]

(***************************************************************************)
(* The scoring helpers of the beam search called once each                 *)
(* (examples/chord_jazzer_demo.py): score_functional_transition on two     *)
(* function names, and the melody clash penalty of a chord for the melody  *)
(* notes that sound during its time slice.                                 *)
(***************************************************************************)
MaxMelodyLen == 2
ScoreFunctions == Functions \cup {NoFunction, "unknown"}
ScoreChords == {StratChord("C", "major"), StratChord("G", "major"), StratChord("D", "minor")}
ScoreEvents ==
    {NoteEvent(t, t + 1, m) : t \in {0, 1}, m \in {59, 61, 64, 72}}
ScoreMelodies == UNION {[1..n -> ScoreEvents] : n \in 0..MaxMelodyLen}

InitScore ==
    /\ ProgIdle /\ NoteIdle /\ RtIdle /\ ModeIdle /\ EngIdle /\ StratIdle
    /\ BeamIdle /\ CallIdle

\* score_functional_transition(func1, func2)
CallScoreFunctionalTransition ==
    /\ callOp = "none"
    /\ \E func1 \in ScoreFunctions, func2 \in ScoreFunctions :
           /\ callArgs' = [func1 |-> func1, func2 |-> func2]
           /\ callOut' = [value |-> ScoreFunctionalTransition(func1, func2)]
    /\ callOp' = "score_functional_transition"
    /\ UNCHANGED notCall

\* calculate_melodic_clash_penalty(chord, get_melody_notes_for_chord(
\* chord_start_time, chord_duration, melody))
CallClashPenalty ==
    /\ callOp = "none"
    /\ \E ch \in ScoreChords, start \in {0, 1}, melody \in ScoreMelodies :
           /\ callArgs' = [chord |-> ch, chord_start_time |-> start, chord_duration |-> 1,
                           melody |-> melody]
           /\ callOut' =
                  IF MelodyNotesRaise(MelodyEventsForChord(start, 1, melody))
                     \/ ClashPenaltyRaise(ch, MelodyNotes(MelodyEventsForChord(start, 1, melody)))
                  THEN ValueError
                  ELSE [value |-> MelodicClashPenalty(
                                      ch, MelodyNotes(MelodyEventsForChord(start, 1, melody)))]
    /\ callOp' = "calculate_melodic_clash_penalty"
    /\ UNCHANGED notCall

NextScore == CallScoreFunctionalTransition \/ CallClashPenalty
SpecScore == InitScore /\ [][NextScore]_vars

\* the table of transition scores with subdominant -> tonic at 0.6
TransitionTable(func1, func2) ==
    CASE func1 = "subdominant" /\ func2 = "dominant" -> One
      [] func1 = "dominant" /\ func2 = "tonic" -> One
      [] func1 = "tonic" /\ func2 \in {"subdominant", "dominant"} -> Frac(7, 10)
      [] func1 = "subdominant" /\ func2 = "tonic" -> Frac(6, 10)
      [] func1 = "dominant" /\ func2 = "subdominant" -> Frac(1, 10)
      [] func1 = "tonic" /\ func2 = "tonic" -> Frac(1, 2)
      [] OTHER -> Frac(3, 10)

\* C21 as stated: the transition score is the table with subdominant ->
\* tonic = 0.6
C21_TransitionTable ==
    callOp = "score_functional_transition" =>
        callOut.value = TransitionTable(callArgs.func1, callArgs.func2)

\* C21 amended: the transition score is the table, except that subdominant
\* -> tonic has no entry of its own and scores the default 0.3
C21_TransitionTableDefault ==
    callOp = "score_functional_transition" =>
        callOut.value =
            IF callArgs.func1 = "subdominant" /\ callArgs.func2 = "tonic" THEN Frac(3, 10)
            ELSE TransitionTable(callArgs.func1, callArgs.func2)

C21_Witness ==
    /\ callOp = "score_functional_transition"
    /\ callArgs.func1 = "subdominant" /\ callArgs.func2 = "tonic"
    /\ callOut.value = Frac(3, 10)

\* the melody events of the call that sound during the chord's time slice
SlicedEvents ==
    {k \in 1..Len(callArgs.melody) :
        /\ callArgs.melody[k].start_time < callArgs.chord_start_time + callArgs.chord_duration
        /\ callArgs.melody[k].end_time > callArgs.chord_start_time}

\* the pairs (melody event, pitch class of a chord tone) a semitone apart
\* modulo the octave, in either direction
MinorSecondPairs ==
    {p \in SlicedEvents \X {ChordNotes(callArgs.chord)[i].midi % 12 :
                               i \in 1..Len(ChordNotes(callArgs.chord))} :
        (callArgs.melody[p[1]].midi_note - p[2]) % 12 \in {1, 11}}

\* C22: the clash penalty is 5.0 times the number of (sounding melody note,
\* chord tone) pairs a minor second apart, whatever the octave of the melody
\* note and whichever of the two is the upper pitch class
C22_ClashPenaltyCountsAll ==
    (callOp = "calculate_melodic_clash_penalty" /\ ~IsErr(callOut)) =>
        callOut.value = 5 * One * Cardinality(MinorSecondPairs)


\* ---------------------------------------------------------------------------
\* SubV7Strategy: voice-leading quality of the suggestions
\* ---------------------------------------------------------------------------

\* the chord a SubV7 suggestion replaces
SubV7Original(sg) == ChordAt(stProg, sg.position \div Half)

\* the suggestion built by _generate_tritone_substitutions itself: it keeps the
\* quality of the dominant it replaces
SubV7Primary(sg) == sg.chord.quality = SubV7Original(sg).quality

\* C23 (as stated): every SubV7 suggestion, the extension and alteration
\* variants included, has a voice-leading quality of at least 0.85.
C23_EverySuggestionFloored ==
    stName = "SubV7" =>
        \A sg \in StratSuggestions : sg.voice_leading_quality >= Frac(17, 20)

\* C23 (amended): the substitution that keeps the dominant's quality has a
\* voice-leading quality of 0.85 or, with the smoother bass, 0.95; the
\* dominant9 and dominant13 variants carry 0.8 and any altered variant 0.75.
C23_PrimaryFloored ==
    stName = "SubV7" =>
        \A sg \in StratSuggestions :
            IF SubV7Primary(sg)
            THEN sg.voice_leading_quality \in {Frac(17, 20), Frac(19, 20)}
            ELSE IF sg.chord.quality \in {"dominant9", "dominant13"}
            THEN sg.voice_leading_quality = Frac(4, 5)
            ELSE sg.voice_leading_quality = Frac(3, 4)

\* SubV7 returned a substitution at 0.85 or more together with a variant at 0.8
C23_Witness ==
    /\ stName = "SubV7"
    /\ \E sg \in StratSuggestions :
           SubV7Primary(sg) /\ sg.voice_leading_quality >= Frac(17, 20)
    /\ \E sg \in StratSuggestions :
           /\ sg.chord.quality = "dominant9"
           /\ sg.voice_leading_quality = Frac(4, 5)

\* ---------------------------------------------------------------------------
\* SuspendStrategy: suspension-resolution pairs
\* ---------------------------------------------------------------------------

\* the pairs of adjacent chords the first two tests of
\* _chords_suitable_for_suspension_resolution accept
SharesRootOrTones(chord1, chord2) ==
    \/ chord1.root.pc = chord2.root.pc
    \/ Cardinality(PitchClasses(chord1) \cap PitchClasses(chord2)) >= 2

\* a suggestion appended by _generate_suspension_resolutions for chord1
IsResolutionOf(sg, chord1, position) ==
    /\ sg.position = FloatPos(position)
    /\ sg.chord.root = chord1.root
    /\ sg.chord.quality \in {"sus2", "sus4"}
    /\ sg.confidence = Frac(17, 20)
    /\ sg.voice_leading_quality = Frac(9, 10)

\* C24: for every pair of adjacent chords that share a root or have at least
\* two common tones, Suspend returns a suspension-to-resolution suggestion (a
\* suspended version of the first chord) at the first chord's position.
C24_ResolutionForEveryRelatedPair ==
    (stName = "Suspend" /\ ~IsErr(stOut)) =>
        \A i \in 1..(Len(stProg.chords) - 1) :
            SharesRootOrTones(stProg.chords[i], stProg.chords[i + 1]) =>
                \E sg \in StratSuggestions : IsResolutionOf(sg, stProg.chords[i], i - 1)

\* ---------------------------------------------------------------------------
\* TSDMovementStrategy: cadential completion
\* ---------------------------------------------------------------------------

\* the functions _analyze_functional_progression finds for the progression
TSDFunctions ==
    [i \in 1..Len(stProg.chords) |->
        GetHarmonicFunction(stProg.chords[i], AnalysisKey(stProg, stKey))]

\* the progression ends with a dominant followed by a tonic
EndsDominantTonic ==
    LET n == Len(stProg.chords)
    IN  n >= 2 /\ TSDFunctions[n - 1] = "dominant" /\ TSDFunctions[n] = "tonic"

\* a suggestion appended by _suggest_cadential_completions
IsCadentialCompletion(sg) ==
    /\ sg.position = FloatPos(Len(stProg.chords))
    /\ sg.chord \in {KeyGetChordForDegree(AnalysisKey(stProg, stKey), 1),
                     KeyGetChordForDegree(AnalysisKey(stProg, stKey), 5)}

\* C25: whenever the progression, of length 1 included, does not end with a
\* dominant followed by a tonic, TSDMovement returns a cadential completion
\* (the tonic or the dominant chord of the key) at position len(progression).
C25_CompletionUnlessCadence ==
    (/\ stName = "TSDMovement"
     /\ ~IsErr(stOut)
     /\ ~IsNone(AnalysisKey(stProg, stKey))
     /\ Len(stProg.chords) >= 1
     /\ ~EndsDominantTonic)
    => \E sg \in StratSuggestions : IsCadentialCompletion(sg)

\* ---------------------------------------------------------------------------
\* ChordSuggestionStrategy._calculate_voice_leading_quality, called directly
\* ---------------------------------------------------------------------------

VoiceRoots == {NoteFromName(n, DefaultOctave) : n \in {"C", "D", "E", "F", "G", "A", "B"}}
                  \cup {NoteFromName("C", DefaultOctave + 1)}
VoiceChords == {Chord(r, q, None) : r \in VoiceRoots, q \in {"major", "minor", "dominant7"}}

InitVoice ==
    /\ ProgIdle /\ NoteIdle /\ RtIdle /\ ModeIdle /\ EngIdle /\ StratIdle
    /\ BeamIdle /\ CallIdle

\* strategy._calculate_voice_leading_quality(chord1, chord2)
CallVoiceLeadingQuality ==
    /\ callOp = "none"
    /\ \E chord1 \in VoiceChords, chord2 \in VoiceChords :
           /\ callArgs' = [chord1 |-> chord1, chord2 |-> chord2]
           /\ callOut' = [value |-> VoiceLeadingQuality(chord1, chord2)]
    /\ callOp' = "calculate_voice_leading_quality"
    /\ UNCHANGED notCall

NextVoice == CallVoiceLeadingQuality
SpecVoice == InitVoice /\ [][NextVoice]_vars

\* r, the root interval of the call, and d = min(r, 12 - r)
VoiceR == (callArgs.chord2.root.midi - callArgs.chord1.root.midi) % 12
VoiceD == Min(VoiceR, 12 - VoiceR)

\* common tones over the size of the smaller chord
VoiceCommonToneRatio ==
    LET pc1 == PitchClasses(callArgs.chord1)
        pc2 == PitchClasses(callArgs.chord2)
    IN  (Cardinality(pc1 \cap pc2) * One) \div Min(Cardinality(pc1), Cardinality(pc2))

\* +0.2 for a 4th/5th, +0.1 for a step, +0.15 for a third
VoiceBonus ==
    IF VoiceR \in {5, 7} THEN One \div 5
    ELSE IF VoiceR \in {1, 2} THEN One \div 10
    ELSE IF VoiceR \in {3, 4} THEN (3 * One) \div 20
    ELSE 0

\* C26 (as stated): the quality is
\* clamp(0.6 x commonToneRatio + 0.4 x (1 - d/12) + bonus, 0, 1).
C26_BonusAddedWhole ==
    callOp = "calculate_voice_leading_quality" =>
        callOut.value =
            Min(One, Max(0, (3 * VoiceCommonToneRatio) \div 5
                            + (2 * (One - (VoiceD * One) \div 12)) \div 5
                            + VoiceBonus))

\* C26 (amended): the bonus belongs to the root-motion term and is weighted
\* with it: clamp(0.6 x commonToneRatio + 0.4 x (1 - d/12 + bonus), 0, 1),
\* the bonus being 0.2 for r in {5, 7}, 0.1 for r in {1, 2}, 0.15 for r in
\* {3, 4} and 0 otherwise.
C26_BonusWeighted ==
    callOp = "calculate_voice_leading_quality" =>
        callOut.value =
            Min(One, Max(0, (3 * VoiceCommonToneRatio) \div 5
                            + (2 * (One - (VoiceD * One) \div 12 + VoiceBonus)) \div 5))

\* C major to G major: one common tone of three, a fifth between the roots,
\* 0.6 x 1/3 + 0.4 x (1 - 5/12 + 0.2)
C26_Witness ==
    /\ callOp = "calculate_voice_leading_quality"
    /\ callArgs.chord1 = Chord(NoteFromName("C", DefaultOctave), "major", None)
    /\ callArgs.chord2 = Chord(NoteFromName("G", DefaultOctave), "major", None)
    /\ callOut.value = (One \div 5) + (2 * (One - (5 * One) \div 12 + One \div 5)) \div 5

\* ---------------------------------------------------------------------------
\* Chord.contains_note, Key(...) and Key.from_signature, called directly
\* ---------------------------------------------------------------------------

\* Chord.contains_note: the note's pitch class as spelled, among the pitch
\* classes of the transposed chord tones
ContainsNote(ch, n) == n.pc \in PitchClasses(ch)

\* MAJOR_KEY_SIGNATURES and MINOR_KEY_SIGNATURES, inverted as from_signature
\* inverts them
MAJOR_KEY_SIGNATURES ==
    [sig \in -7..7 |->
        CASE sig = 0 -> "C" [] sig = 1 -> "G" [] sig = 2 -> "D" [] sig = 3 -> "A"
          [] sig = 4 -> "E" [] sig = 5 -> "B" [] sig = 6 -> "F#" [] sig = 7 -> "C#"
          [] sig = -1 -> "F" [] sig = -2 -> "Bb" [] sig = -3 -> "Eb" [] sig = -4 -> "Ab"
          [] sig = -5 -> "Db" [] sig = -6 -> "Gb" [] sig = -7 -> "Cb"]
MINOR_KEY_SIGNATURES ==
    [sig \in -7..7 |->
        CASE sig = 0 -> "A" [] sig = 1 -> "E" [] sig = 2 -> "B" [] sig = 3 -> "F#"
          [] sig = 4 -> "C#" [] sig = 5 -> "G#" [] sig = 6 -> "D#" [] sig = 7 -> "A#"
          [] sig = -1 -> "D" [] sig = -2 -> "G" [] sig = -3 -> "C" [] sig = -4 -> "F"
          [] sig = -5 -> "Bb" [] sig = -6 -> "Eb" [] sig = -7 -> "Ab"]

\* the table from_signature and signature choose: mode == 'major' or anything else
SignatureTable(mode) ==
    IF mode = "major" THEN MAJOR_KEY_SIGNATURES ELSE MINOR_KEY_SIGNATURES

\* Key.from_signature(signature, mode)
KeyFromSignature(signature, mode) ==
    IF signature \notin DOMAIN SignatureTable(mode) THEN ValueError
    ELSE IF IsErr(NoteFromName(SignatureTable(mode)[signature], DefaultOctave))
    THEN ValueError
    ELSE Key(NoteFromName(SignatureTable(mode)[signature], DefaultOctave), mode)

\* Key.signature: the table's entry for the tonic as spelled, 0 when absent
KeySignature(key) ==
    IF \E sig \in -7..7 : SignatureTable(key.mode)[sig] = key.tonic.pc
    THEN CHOOSE sig \in -7..7 : SignatureTable(key.mode)[sig] = key.tonic.pc
    ELSE 0

MaxSignature == 8
CoreNames == {"C", "C#", "Db", "E", "F#", "Gb", "G", "A#", "Bb"}
CoreNotes == {NoteFromName(n, DefaultOctave) : n \in CoreNames}
CoreChords == {Chord(r, q, None) : r \in CoreNotes, q \in {"major", "minor", "dominant7"}}
CoreModes == {"major", "minor", "Major", "MAJOR", "Minor", "MINOR", "dorian"}

InitCore ==
    /\ ProgIdle /\ NoteIdle /\ RtIdle /\ ModeIdle /\ EngIdle /\ StratIdle
    /\ BeamIdle /\ CallIdle

\* chord.contains_note(note)
CallContainsNote ==
    /\ callOp = "none"
    /\ \E ch \in CoreChords, n \in CoreNotes :
           /\ callArgs' = [chord |-> ch, note |-> n]
           /\ callOut' = [value |-> ContainsNote(ch, n)]
    /\ callOp' = "contains_note"
    /\ UNCHANGED notCall

\* Key(tonic, mode)
CallKey ==
    /\ callOp = "none"
    /\ \E tonic \in CoreNotes, mode \in CoreModes :
           /\ callArgs' = [tonic |-> tonic, mode |-> mode]
           /\ callOut' = Key(tonic, mode)
    /\ callOp' = "Key"
    /\ UNCHANGED notCall

\* Key.from_signature(signature, mode), followed by .signature
CallFromSignature ==
    /\ callOp = "none"
    /\ \E signature \in -MaxSignature..MaxSignature, mode \in {"major", "minor"} :
           /\ callArgs' = [signature |-> signature, mode |-> mode]
           /\ callOut' = IF IsErr(KeyFromSignature(signature, mode)) THEN ValueError
                         ELSE [key |-> KeyFromSignature(signature, mode),
                               signature |-> KeySignature(KeyFromSignature(signature, mode))]
    /\ callOp' = "from_signature"
    /\ UNCHANGED notCall

NextCore == CallContainsNote \/ CallKey \/ CallFromSignature
SpecCore == InitCore /\ [][NextCore]_vars

\* C27: notes that are equal (the same MIDI number under another spelling)
\* are interchangeable in contains_note, and every chord contains its own
\* root as supplied.
C27_EqualNotesInterchangeable ==
    callOp = "contains_note" =>
        /\ \A other \in CoreNotes :
               NoteEq(other, callArgs.note) =>
                   ContainsNote(callArgs.chord, other) = callOut.value
        /\ callArgs.note = callArgs.chord.root => callOut.value

\* C28: a key that was constructed has the scale of its stored mode, whatever
\* the letter case of the mode string: the major pattern for 'major', the
\* natural-minor pattern for 'minor'.
C28_ScaleMatchesStoredMode ==
    (callOp = "Key" /\ ~IsErr(callOut)) =>
        ScalePattern(callOut.scale)
            = IF callOut.mode = "major" THEN SCALE_PATTERNS["major"]
              ELSE SCALE_PATTERNS["natural_minor"]

\* C29: for every signature in -7..7 and each of major and minor,
\* Key.from_signature succeeds and the key's signature is the one asked for.
C29_SignatureRoundTrip ==
    (callOp = "from_signature" /\ callArgs.signature \in -7..7) =>
        ~IsErr(callOut) /\ callOut.signature = callArgs.signature

(***************************************************************************)
(* AdamStarkChordDetector (analysis/adam_stark_detector.py).  A chromagram *)
(* is a sequence of integer energies; the normalised and damped bins are   *)
(* kept as numerators over the common denominator 5 * sum, and scores as   *)
(* numerators over its square.                                             *)
(***************************************************************************)
NumSemitones == 12

\* self.chord_names, each split after its first character
ChordNames ==
    <<<<"N", "">>, <<"C", "">>, <<"C", "m">>, <<"C", "dim">>, <<"C", "aug">>,
      <<"C", "sus2">>, <<"C", "sus4">>, <<"C", "maj7">>, <<"C", "m7">>, <<"C", "7">>>>
NumChordsInClassifier == Len(ChordNames)

\* chord_intervals, by chord type
ChordIntervals ==
    [chord_type \in 0..(NumChordsInClassifier - 1) |->
        CASE chord_type = 0 -> {}
          [] chord_type = 1 -> {0, 4, 7}
          [] chord_type = 2 -> {0, 3, 7}
          [] chord_type = 3 -> {0, 3, 6}
          [] chord_type = 4 -> {0, 4, 8}
          [] chord_type = 5 -> {0, 2, 7}
          [] chord_type = 6 -> {0, 5, 7}
          [] chord_type = 7 -> {0, 4, 7, 11}
          [] chord_type = 8 -> {0, 3, 7, 10}
          [] chord_type = 9 -> {0, 4, 7, 10}]

\* _make_chord_profiles: row profile_index = chord_type * 12 + root, with 1 at
\* (root + interval) % 12 for every interval of the type
ChordProfile(profile_index) ==
    [note_index \in 0..(NumSemitones - 1) |->
        IF \E interval \in ChordIntervals[profile_index \div NumSemitones] :
               ((profile_index % NumSemitones) + interval) % NumSemitones = note_index
        THEN 1 ELSE 0]

\* _remove_fifth_energy: the bin (i + 7) % 12 is scaled by 0.8 for every i;
\* the result in fifths of the input
RemoveFifthEnergy(chromagram) ==
    [note_index \in 0..(NumSemitones - 1) |->
        IF \E i \in 0..(NumSemitones - 1) : (i + 7) % NumSemitones = note_index
        THEN 4 * chromagram[note_index + 1] ELSE 5 * chromagram[note_index + 1]]

\* _calculate_chord_score (of this detector): the sum of the squared differences, over den^2
RECURSIVE SquaredDifferences(_, _, _, _)
SquaredDifferences(processed, den, profile, note_index) ==
    IF note_index = NumSemitones THEN 0
    ELSE (processed[note_index] - den * profile[note_index])
             * (processed[note_index] - den * profile[note_index])
         + SquaredDifferences(processed, den, profile, note_index + 1)

StarkChordScore(processed, den, profile_index) ==
    SquaredDifferences(processed, den, ChordProfile(profile_index), 0)

\* _calculate_all_chord_scores
CalculateAllChordScores(processed, den) ==
    [profile_index \in 0..(NumChordsInClassifier * NumSemitones - 1) |->
        StarkChordScore(processed, den, profile_index)]

\* np.argmin: the first index of the smallest score
ArgMin(scores) ==
    CHOOSE i \in DOMAIN scores :
        /\ \A j \in DOMAIN scores : scores[i] <= scores[j]
        /\ \A j \in DOMAIN scores : j < i => scores[j] > scores[i]

CHORD_NOTE_NAMES == <<"C", "C#", "D", "D#", "E", "F", "F#", "G", "G#", "A", "A#", "B">>

\* _get_chord_name
GetChordName(chord_type, root_note) ==
    IF chord_type >= Len(ChordNames) THEN "N"
    ELSE IF chord_type = 0 THEN "N"
    ELSE CHORD_NOTE_NAMES[root_note + 1] \o ChordNames[chord_type + 1][2]

\* the name and the confidence max(0, 1 - best_score), as a fraction, for
\* the scores of a chromagram
BestChord(scores, den) ==
    [name |-> GetChordName(ArgMin(scores) \div NumSemitones, ArgMin(scores) % NumSemitones),
     confidence |-> [num |-> Max(0, den * den - scores[ArgMin(scores)]),
                     den |-> den * den]]

\* detect_chord
DetectChordStark(chromagram) ==
    IF Len(chromagram) # NumSemitones THEN ValueError
    ELSE IF SumOfSeq(chromagram) = 0 THEN [name |-> "N", confidence |-> [num |-> 0, den |-> 1]]
    ELSE BestChord(CalculateAllChordScores(RemoveFifthEnergy(chromagram),
                                           5 * SumOfSeq(chromagram)),
                   5 * SumOfSeq(chromagram))

MaxEnergy == 2

\* the chromagram with the same energy on every tone of a set
EvenChromagram(tones, energy) ==
    [i \in 1..NumSemitones |-> IF (i - 1) \in tones THEN energy ELSE 0]

\* the tones of a template
TemplateTones(chord_type, root) ==
    {(root + interval) % NumSemitones : interval \in ChordIntervals[chord_type]}

StarkChromagrams ==
    {EvenChromagram(TemplateTones(t, r), e) :
        t \in 0..(NumChordsInClassifier - 1), r \in 0..(NumSemitones - 1),
        e \in 1..MaxEnergy}
    \cup {EvenChromagram({r}, e) : r \in 0..(NumSemitones - 1), e \in 1..MaxEnergy}
    \cup {[i \in 1..NumSemitones |-> IF i = 1 THEN 2 ELSE IF i \in {5, 8} THEN 1 ELSE 0],
          <<1, 0, 1>>}

InitStark ==
    /\ ProgIdle /\ NoteIdle /\ RtIdle /\ ModeIdle /\ EngIdle /\ StratIdle
    /\ BeamIdle /\ CallIdle

\* detector.detect_chord(chromagram)
CallStarkDetectChord ==
    /\ callOp = "none"
    /\ \E chromagram \in StarkChromagrams :
           /\ callArgs' = [chromagram |-> chromagram]
           /\ callOut' = DetectChordStark(chromagram)
    /\ callOp' = "detect_chord"
    /\ UNCHANGED notCall

NextStark == CallStarkDetectChord
SpecStark == InitStark /\ [][NextStark]_vars

\* the templates whose tones are exactly the bins that carry energy, all of
\* them with the same energy
MatchingTemplates(chromagram) ==
    {tr \in (1..(NumChordsInClassifier - 1)) \X (0..(NumSemitones - 1)) :
        \E e \in 1..MaxEnergy :
            chromagram = EvenChromagram(TemplateTones(tr[1], tr[2]), e)}

\* C30: for a chromagram whose energy lies exactly and equally on the tones
\* of one templated chord, detect_chord returns that chord's name and not
\* the no-chord label 'N'.
C30_TemplateChordDetected ==
    (/\ callOp = "detect_chord"
     /\ Len(callArgs.chromagram) = NumSemitones
     /\ MatchingTemplates(callArgs.chromagram) # {})
    => /\ callOut.name # "N"
       /\ callOut.name \in {GetChordName(tr[1], tr[2]) :
                                tr \in MatchingTemplates(callArgs.chromagram)}

====
